---- MODULE Spec2Model ----
(***************************************************************************)
(* Model of the test-generation core of the QA Council agents:             *)
(*   agents/analyzer_agent.py   (FunctionAnalyzer, ModuleAnalyzer,         *)
(*                               analyze_file, analyze_directory)          *)
(*   agents/orchestrator_agent.py (select_test_targets)                    *)
(*   agents/generator_agent.py  (argument heuristics, mock-strategy        *)
(*                               resolver, test templates, file writer,    *)
(*                               run_unit_test_generation)                 *)
(*                                                                         *)
(* Python strings that the code inspects (substring tests, prefixes,       *)
(* concatenation) are modelled as sequences of one-character strings, so   *)
(* that "k in name", str.lower and str.startswith are computed, not        *)
(* assumed.  Text that the code only copies (template literals) is kept    *)
(* as an opaque TLA+ string.                                               *)
(***************************************************************************)
EXTENDS Integers, Sequences, FiniteSets, TLC

VARIABLES
    \* ---- function-level pipeline (analyze -> resolve -> synthesize) ----
    pcS,          \* position: "source" | "analyzed" | "resolved" | "generated"
    fnode,        \* the function definition under analysis (syntax level)
    module_name,  \* module identifier handed to the resolver / generator
    fn,           \* FunctionMetadata produced by _analyze_function
    strategies,   \* list returned by resolve_mock_strategies
    tests,        \* cases built by _generate_function_tests
    \* ---- file-level pipeline (scan -> analyze -> write) ----
    pc,           \* position of run_unit_test_generation / direct API use
    repo,         \* the repository: path -> file content
    mode,         \* arguments of the running run_unit_test_generation call
    analyses,     \* list returned by analyze_directory
    idx,          \* loop index over analyses (full-repository mode)
    generated_files, \* list of written test paths
    dir_created,  \* the output directory exists
    out_files,    \* output directory: test file name -> rendered module
    writers,      \* per test file name, the source files written to it
    last_gen,     \* the last generate_test_file call: analysis, result, pre-state
    result,       \* value returned (or exception raised) by the entry point
    \* ---- orchestrator: target selection over the analyses ----
    targets,      \* last select_test_targets call: max_targets, scored, selected
    \* ---- analyzer on syntax trees: one definition, alone and among siblings ----
    mod_a,        \* parsed module holding the definition alone
    mod_b,        \* parsed module holding the same definition among siblings
    out_a,        \* functions and classes analyze_file found in mod_a
    out_b,        \* functions and classes analyze_file found in mod_b
    \* ---- argument heuristics on one parameter ----
    arg_in,       \* the parameter: its name and default-value literal
    arg_out,      \* literals returned by _infer_test_value / _infer_empty_value
    \* ---- orchestrator: one orchestrate_full_qa_cycle call ----
    cycle         \* its position, arguments, awaited agent calls and result entries

varsS == <<pcS, fnode, module_name, fn, strategies, tests>>
varsF == <<pc, repo, mode, analyses, idx, generated_files, dir_created,
           out_files, writers, last_gen, result>>
varsO == <<targets>>
varsA == <<mod_a, mod_b, out_a, out_b>>
varsH == <<arg_in, arg_out>>
varsC == <<cycle>>
vars == <<pcS, fnode, module_name, fn, strategies, tests,
          pc, repo, mode, analyses, idx, generated_files, dir_created,
          out_files, writers, last_gen, result, targets,
          mod_a, mod_b, out_a, out_b, arg_in, arg_out, cycle>>

(***************************************************************************)
(* Bounds of the model.                                                    *)
(***************************************************************************)
\* statements (call expressions) in one modelled function body
MaxStmts == 2
\* parameters of one modelled function
MaxArgs == 2

(***************************************************************************)
(* Python string primitives.                                               *)
(***************************************************************************)
UpperAlpha == <<"A", "B", "C", "D", "E", "F", "G", "H", "I", "J", "K", "L", "M", "N", "O", "P", "Q", "R", "S", "T", "U", "V", "W", "X", "Y", "Z">>
LowerAlpha == <<"a", "b", "c", "d", "e", "f", "g", "h", "i", "j", "k", "l", "m", "n", "o", "p", "q", "r", "s", "t", "u", "v", "w", "x", "y", "z">>

\* one character of str.lower()
LowerChar(c) ==
    IF \E i \in 1..26 : UpperAlpha[i] = c
    THEN LowerAlpha[CHOOSE i \in 1..26 : UpperAlpha[i] = c]
    ELSE c

\* str.lower()
Lower(s) == [i \in 1..Len(s) |-> LowerChar(s[i])]

\* "sub in s" on strings
Contains(s, sub) ==
    \E i \in 1..(Len(s) - Len(sub) + 1) : SubSeq(s, i, i + Len(sub) - 1) = sub

\* s.startswith(pre)
StartsWith(s, pre) ==
    /\ Len(pre) <= Len(s)
    /\ SubSeq(s, 1, Len(pre)) = pre

\* any(k in s for k in keys)
AnyIn(keys, s) == \E i \in 1..Len(keys) : Contains(s, keys[i])

\* "x in list" on lists
InList(x, list) == \E i \in 1..Len(list) : list[i] = x

\* the Python value None where a string is expected
PyNone == "<None>"

RECURSIVE Flatten(_)
\* [line for s in lists for line in s]
Flatten(lists) ==
    IF lists = <<>> THEN <<>> ELSE Head(lists) \o Flatten(Tail(lists))

\* reversed(list)
Reversed(list) == [i \in 1..Len(list) |-> list[Len(list) + 1 - i]]

(***************************************************************************)
(* Input vocabulary: call names, parameters, module identifiers.           *)
(***************************************************************************)
CallNames ==
    { <<"o", "p", "e", "n">>, <<"s", "u", "b", "p", "r", "o", "c", "e", "s", "s", ".", "r", "u", "n">>, <<"h", "t", "t", "p", "x", ".", "g", "e", "t">>, <<"r", "e", "q", "u", "e", "s", "t", "s", ".", "g", "e", "t">>,
      <<"u", "r", "l", "l", "i", "b", ".", "r", "e", "q", "u", "e", "s", "t", ".", "u", "r", "l", "o", "p", "e", "n">>, <<"o", "s", ".", "g", "e", "t", "c", "w", "d">>, <<"o", "s", ".", "p", "a", "t", "h", ".", "e", "x", "i", "s", "t", "s">> }

ParamNames == { <<"u", "r", "l">>, <<"t", "i", "m", "e", "o", "u", "t">> }

\* default-value literals as _constant_repr returns them (None: no default)
Defaults == { PyNone, "30" }

ModuleNames == { <<"a", "p", "i">>, <<"h", "t", "t", "p", "_", "a", "p", "i">> }

\* all sequences over S of length at most n
SeqsUpTo(S, n) == UNION { [1..k -> S] : k \in 0..n }

\* parameter lists Python accepts: distinct names, defaults right-aligned
ArgLists ==
    { a \in SeqsUpTo([name : ParamNames, default : Defaults], MaxArgs) :
        /\ \A i, j \in 1..Len(a) : i # j => a[i].name # a[j].name
        /\ \A i, j \in 1..Len(a) :
              (i < j /\ a[i].default # PyNone) => a[j].default # PyNone }

\* a function definition: its signature, and a body made of call
\* statements, optionally wrapped as a whole in one try/except
FuncNodes ==
    [ name : { <<"f", "e", "t", "c", "h">> }, args : ArgLists, is_async : BOOLEAN,
      body : SeqsUpTo(CallNames, MaxStmts), wrapped : BOOLEAN ]

(***************************************************************************)
(* analyzer_agent.py: FunctionAnalyzer and _analyze_function.              *)
(***************************************************************************)
NoComplexity ==
    [ uses_file_io |-> FALSE, uses_subprocess |-> FALSE, uses_http |-> FALSE,
      uses_os |-> FALSE, has_try_except |-> FALSE, has_conditionals |-> FALSE,
      has_loops |-> FALSE ]

\* FunctionAnalyzer._classify_call: the indicators one call name sets
classify_call(cx, name) ==
    LET lower == Lower(name) IN
    [ cx EXCEPT
        !.uses_file_io = @ \/ AnyIn(<<<<"o", "p", "e", "n">>, <<"r", "e", "a", "d", "_", "t", "e", "x", "t">>, <<"w", "r", "i", "t", "e", "_", "t", "e", "x", "t">>, <<"r", "e", "a", "d", "_", "b", "y", "t", "e", "s">>>>, lower),
        !.uses_subprocess = @ \/ Contains(lower, <<"s", "u", "b", "p", "r", "o", "c", "e", "s", "s">>),
        !.uses_http = @ \/ AnyIn(<<<<"h", "t", "t", "p", "x">>, <<"r", "e", "q", "u", "e", "s", "t", "s">>, <<"a", "i", "o", "h", "t", "t", "p">>, <<"u", "r", "l", "l", "i", "b">>>>, lower),
        !.uses_os = @ \/ AnyIn(<<<<"o", "s", ".">>, <<"p", "a", "t", "h", ".">>, <<"P", "a", "t", "h">>>>, lower) ]

RECURSIVE classify_calls(_, _)
\* the effect of visit_Call on the indicators, over a list of call names
classify_calls(cx, calls) ==
    IF calls = <<>> THEN cx
    ELSE classify_calls(classify_call(cx, Head(calls)), Tail(calls))

\* The calls FunctionAnalyzer records for a body of call statements.
\* _analyze_function runs fa.visit on every node of ast.walk(node), and
\* the visitor itself recurses (generic_visit): a call is recorded once for
\* each of its ancestors-or-self.  For a statement directly in the body
\* these are FunctionDef, Expr and Call; inside a try, Try as well.
walk_calls(body, wrapped) ==
    IF wrapped THEN body \o body \o body \o body ELSE body \o body \o body

\* ModuleAnalyzer._analyze_function
analyze_function(node) ==
    LET calls == walk_calls(node.body, node.wrapped)
        cx0 == [NoComplexity EXCEPT !.has_try_except = node.wrapped]
    IN [ name |-> node.name,
         args |-> node.args,
         is_async |-> node.is_async,
         calls |-> calls,
         raises |-> <<>>,
         has_return |-> FALSE,
         complexity_indicators |-> classify_calls(cx0, calls) ]

(***************************************************************************)
(* analyzer_agent.py on syntax trees.  A node of the Python ast is         *)
(* [type, id, children]: id is the identifier of a Name, the attr of an    *)
(* Attribute, the name of a definition; children are the child nodes in    *)
(* the order of ast.iter_child_nodes (for a Call: func, then the           *)
(* arguments).  analyze_function above is the closed form of this analysis *)
(* for a body of plain call statements.                                    *)
(***************************************************************************)
Node(type, id, children) == [ type |-> type, id |-> id, children |-> children ]

\* the value None where a call name is expected
NoName == << PyNone >>

RECURSIVE Join(_, _)
\* sep.join(list)
Join(list, sep) ==
    IF list = <<>> THEN <<>>
    ELSE IF Len(list) = 1 THEN list[1]
    ELSE list[1] \o sep \o Join(Tail(list), sep)

RECURSIVE attr_parts(_)
\* _call_name: the list "parts" after the while loop and the test of the root
attr_parts(current) ==
    IF current.type = "Attribute"
    THEN << current.id >> \o attr_parts(current.children[1])
    ELSE IF current.type = "Name" THEN << current.id >> ELSE <<>>

RECURSIVE chain_root(_)
\* the node an attribute chain hangs on
chain_root(current) ==
    IF current.type = "Attribute" THEN chain_root(current.children[1]) ELSE current

\* a name only for a callee rooted in a plain identifier
call_name_rooted(node) ==
    LET func == node.children[1] IN
    IF chain_root(func).type = "Name"
    THEN Join(Reversed(attr_parts(func)), <<".">>)
    ELSE NoName

\* _call_name
call_name(node) ==
    LET func == node.children[1] IN
    IF func.type = "Name" THEN func.id
    ELSE IF func.type = "Attribute"
    THEN Join(Reversed(attr_parts(func)), <<".">>)
    ELSE NoName

\* FunctionAnalyzer()
NewFunctionAnalyzer ==
    [ calls |-> <<>>, raises |-> <<>>, has_return |-> FALSE,
      complexity |-> NoComplexity ]

\* "if name:" on the result of _call_name
Truthy(name) == name # NoName /\ name # <<>>

\* FunctionAnalyzer.visit_<type>, up to the generic_visit that ends each
fa_visit_node(fa, node) ==
    CASE node.type = "Call" ->
            LET name == call_name(node) IN
            IF Truthy(name)
            THEN [ fa EXCEPT !.calls = Append(@, name),
                             !.complexity = classify_call(@, name) ]
            ELSE fa
      [] node.type = "Raise" ->
            IF node.children = <<>> THEN fa
            ELSE LET exc == node.children[1] IN
                 IF exc.type = "Call"
                 THEN IF Truthy(call_name(exc))
                      THEN [ fa EXCEPT !.raises = Append(@, call_name(exc)) ]
                      ELSE fa
                 ELSE IF exc.type = "Name"
                 THEN [ fa EXCEPT !.raises = Append(@, exc.id) ]
                 ELSE fa
      [] node.type = "Return" ->
            IF node.children # <<>> THEN [ fa EXCEPT !.has_return = TRUE ] ELSE fa
      [] node.type \in { "Try", "TryStar" } ->
            [ fa EXCEPT !.complexity.has_try_except = TRUE ]
      [] node.type = "If" ->
            [ fa EXCEPT !.complexity.has_conditionals = TRUE ]
      [] node.type \in { "For", "While" } ->
            [ fa EXCEPT !.complexity.has_loops = TRUE ]
      [] OTHER -> fa

RECURSIVE visit_order(_)
\* the nodes NodeVisitor.visit reaches from a node, in order: the node, then
\* (generic_visit) what it reaches from each child
visit_order(node) ==
    << node >> \o Flatten([ i \in 1..Len(node.children) |-> visit_order(node.children[i]) ])

RECURSIVE fa_visit_nodes(_, _)
\* the visit_<type> methods run on a list of nodes in order: the analyzer
\* "first" left by the first half of the list visits the second half
fa_visit_nodes(fa, nodes) ==
    IF nodes = <<>> THEN fa
    ELSE IF Len(nodes) = 1 THEN fa_visit_node(fa, nodes[1])
    ELSE LET half == Len(nodes) \div 2 IN
         CHOOSE last \in { fa_visit_nodes(first, SubSeq(nodes, half + 1, Len(nodes))) :
                              first \in { fa_visit_nodes(fa, SubSeq(nodes, 1, half)) } } : TRUE

\* FunctionAnalyzer.visit: the visit_<type> method, then generic_visit
fa_visit(fa, node) == fa_visit_nodes(fa, visit_order(node))

\* fa.visit on every node of a list, in order (the loop of
\* _analyze_function over ast.walk)
fa_visit_each(fa, nodes) ==
    fa_visit_nodes(fa, Flatten([ i \in 1..Len(nodes) |-> visit_order(nodes[i]) ]))

RECURSIVE walk_queue(_)
\* ast.walk: breadth first; the queue holds the nodes of one depth, and the
\* children of all of them are queued behind them in order
walk_queue(todo) ==
    IF todo = <<>> THEN <<>>
    ELSE todo \o walk_queue(Flatten([ i \in 1..Len(todo) |-> todo[i].children ]))

\* ast.walk(node)
ast_walk(node) == walk_queue(<< node >>)

\* _analyze_function with the FunctionAnalyzer it starts from
analyze_with(fa0, node) ==
    LET fa == fa_visit_each(fa0, ast_walk(node))
    IN [ name |-> node.id,
         args |-> <<>>,
         is_async |-> node.type = "AsyncFunctionDef",
         calls |-> fa.calls,
         raises |-> fa.raises,
         has_return |-> fa.has_return,
         complexity_indicators |-> fa.complexity ]

\* ModuleAnalyzer._analyze_function on a definition node (the modelled
\* definitions take no parameters)
analyze_function_def(node) == analyze_with(NewFunctionAnalyzer, node)

\* ModuleAnalyzer(module_name)
NewModuleAnalyzer == [ functions |-> <<>>, classes |-> <<>>, current_class |-> PyNone ]

IsFunctionDef(node) == node.type \in { "FunctionDef", "AsyncFunctionDef" }

\* a function analyzed by an analyzer that keeps the indicators of the
\* function analyzed before it
visit_FunctionDef_shared(ma, node) ==
    IF ma.current_class = PyNone
    THEN LET fa0 == IF ma.functions = <<>> THEN NewFunctionAnalyzer
                    ELSE [ NewFunctionAnalyzer EXCEPT
                             !.complexity = ma.functions[Len(ma.functions)].complexity_indicators ]
         IN [ ma EXCEPT !.functions = Append(@, analyze_with(fa0, node)) ]
    ELSE ma

\* ModuleAnalyzer.visit_FunctionDef
visit_FunctionDef(ma, node) ==
    IF ma.current_class = PyNone
    THEN [ ma EXCEPT !.functions = Append(@, analyze_function_def(node)) ]
    ELSE ma

\* ModuleAnalyzer.visit_ClassDef
visit_ClassDef(ma, node) ==
    LET items == SelectSeq(node.children, IsFunctionDef)
        methods == [ i \in 1..Len(items) |-> analyze_function_def(items[i]) ]
        inits == SelectSeq(methods, LAMBDA m : m.name = <<"_", "_", "i", "n", "i", "t", "_", "_">>)
    IN [ ma EXCEPT !.classes =
            Append(@, [ name |-> node.id,
                        has_init |-> inits # <<>>,
                        init_args |-> IF inits = <<>> THEN <<>> ELSE inits[Len(inits)].args,
                        methods |-> methods ]) ]

RECURSIVE ma_visit(_, _)
RECURSIVE ma_visit_each(_, _)
\* ModuleAnalyzer.visit
ma_visit(ma, node) ==
    IF IsFunctionDef(node) THEN visit_FunctionDef(ma, node)
    ELSE IF node.type = "ClassDef" THEN visit_ClassDef(ma, node)
    ELSE ma_visit_each(ma, node.children)

\* ModuleAnalyzer.generic_visit
ma_visit_each(ma, nodes) ==
    IF nodes = <<>> THEN ma
    ELSE ma_visit_each(ma_visit(ma, Head(nodes)), Tail(nodes))

\* analyze_file on a parsed source: visitor.visit(tree)
analyze_tree(tree) ==
    LET visitor == ma_visit(NewModuleAnalyzer, tree)
    IN [ functions |-> visitor.functions, classes |-> visitor.classes ]

\* no analyze_file call on the module yet
NotAnalyzed == [ done |-> FALSE, functions |-> <<>>, classes |-> <<>> ]

\* the analyzer on syntax trees at rest
AnalyzerIdle ==
    /\ mod_a = Node("Module", <<>>, <<>>)
    /\ mod_b = Node("Module", <<>>, <<>>)
    /\ out_a = NotAnalyzed
    /\ out_b = NotAnalyzed

(***************************************************************************)
(* generator_agent.py: argument heuristics.                                *)
(***************************************************************************)
\* the heuristic with the credential keywords tested before timeout/delay
infer_test_value_credentials_first(param_name, default) ==
    LET name == Lower(param_name) IN
    IF default # PyNone /\ default # "" /\ default \notin {"None", "''", "\"\""}
    THEN default
    ELSE IF AnyIn(<<<<"p", "a", "t", "h">>, <<"f", "i", "l", "e">>, <<"d", "i", "r">>, <<"f", "o", "l", "d", "e", "r">>>>, name) THEN "\"/tmp/test_file.txt\""
    ELSE IF AnyIn(<<<<"u", "r", "l">>, <<"u", "r", "i">>, <<"e", "n", "d", "p", "o", "i", "n", "t">>>>, name) THEN "\"https://example.com/test\""
    ELSE IF AnyIn(<<<<"n", "a", "m", "e">>, <<"t", "i", "t", "l", "e">>, <<"l", "a", "b", "e", "l">>>>, name) THEN "\"test_value\""
    ELSE IF AnyIn(<<<<"c", "o", "u", "n", "t">>, <<"n", "u", "m">>, <<"s", "i", "z", "e">>, <<"l", "i", "m", "i", "t">>, <<"m", "a", "x">>, <<"m", "i", "n">>>>, name) THEN "10"
    ELSE IF AnyIn(<<<<"f", "l", "a", "g">>, <<"e", "n", "a", "b", "l", "e", "d">>, <<"a", "c", "t", "i", "v", "e">>, <<"v", "e", "r", "b", "o", "s", "e">>>>, name) THEN "True"
    ELSE IF AnyIn(<<<<"d", "a", "t", "a">>, <<"c", "o", "n", "f", "i", "g">>, <<"o", "p", "t", "i", "o", "n", "s">>, <<"s", "e", "t", "t", "i", "n", "g", "s">>>>, name) THEN "{\"key\": \"value\"}"
    ELSE IF name = <<"b", "r", "a", "n", "c", "h">> THEN "\"main\""
    ELSE IF AnyIn(<<<<"t", "o", "k", "e", "n">>, <<"k", "e", "y">>, <<"s", "e", "c", "r", "e", "t">>>>, name) THEN "\"test_token_123\""
    ELSE IF AnyIn(<<<<"t", "i", "m", "e", "o", "u", "t">>, <<"d", "e", "l", "a", "y">>>>, name) THEN "30"
    ELSE IF AnyIn(<<<<"o", "u", "t", "p", "u", "t">>, <<"r", "e", "s", "u", "l", "t">>, <<"t", "e", "x", "t">>, <<"c", "o", "n", "t", "e", "n", "t">>, <<"b", "o", "d", "y">>>>, name) THEN "\"test output content\""
    ELSE IF AnyIn(<<<<"c", "o", "m", "m", "a", "n", "d">>, <<"c", "m", "d">>>>, name) THEN "\"echo hello\""
    ELSE "\"test_input\""

\* _infer_test_value
infer_test_value(param_name, default) ==
    LET name == Lower(param_name) IN
    IF default # PyNone /\ default # "" /\ default \notin {"None", "''", "\"\""}
    THEN default
    ELSE IF AnyIn(<<<<"p", "a", "t", "h">>, <<"f", "i", "l", "e">>, <<"d", "i", "r">>, <<"f", "o", "l", "d", "e", "r">>>>, name) THEN "\"/tmp/test_file.txt\""
    ELSE IF AnyIn(<<<<"u", "r", "l">>, <<"u", "r", "i">>, <<"e", "n", "d", "p", "o", "i", "n", "t">>>>, name) THEN "\"https://example.com/test\""
    ELSE IF AnyIn(<<<<"n", "a", "m", "e">>, <<"t", "i", "t", "l", "e">>, <<"l", "a", "b", "e", "l">>>>, name) THEN "\"test_value\""
    ELSE IF AnyIn(<<<<"c", "o", "u", "n", "t">>, <<"n", "u", "m">>, <<"s", "i", "z", "e">>, <<"l", "i", "m", "i", "t">>, <<"m", "a", "x">>, <<"m", "i", "n">>>>, name) THEN "10"
    ELSE IF AnyIn(<<<<"f", "l", "a", "g">>, <<"e", "n", "a", "b", "l", "e", "d">>, <<"a", "c", "t", "i", "v", "e">>, <<"v", "e", "r", "b", "o", "s", "e">>>>, name) THEN "True"
    ELSE IF AnyIn(<<<<"d", "a", "t", "a">>, <<"c", "o", "n", "f", "i", "g">>, <<"o", "p", "t", "i", "o", "n", "s">>, <<"s", "e", "t", "t", "i", "n", "g", "s">>>>, name) THEN "{\"key\": \"value\"}"
    ELSE IF name = <<"b", "r", "a", "n", "c", "h">> THEN "\"main\""
    ELSE IF AnyIn(<<<<"t", "i", "m", "e", "o", "u", "t">>, <<"d", "e", "l", "a", "y">>>>, name) THEN "30"
    ELSE IF AnyIn(<<<<"o", "u", "t", "p", "u", "t">>, <<"r", "e", "s", "u", "l", "t">>, <<"t", "e", "x", "t">>, <<"c", "o", "n", "t", "e", "n", "t">>, <<"b", "o", "d", "y">>>>, name) THEN "\"test output content\""
    ELSE IF AnyIn(<<<<"c", "o", "m", "m", "a", "n", "d">>, <<"c", "m", "d">>>>, name) THEN "\"echo hello\""
    ELSE IF AnyIn(<<<<"t", "o", "k", "e", "n">>, <<"k", "e", "y">>, <<"s", "e", "c", "r", "e", "t">>>>, name) THEN "\"test_token_123\""
    ELSE "\"test_input\""

\* the degenerate value with nothing at all for an unrecognized name
infer_empty_value_blank(param_name) ==
    LET name == Lower(param_name) IN
    IF AnyIn(<<<<"c", "o", "u", "n", "t">>, <<"n", "u", "m">>, <<"s", "i", "z", "e">>, <<"l", "i", "m", "i", "t">>, <<"m", "a", "x">>, <<"m", "i", "n">>, <<"t", "i", "m", "e", "o", "u", "t">>, <<"d", "e", "l", "a", "y">>>>, name) THEN "0"
    ELSE IF AnyIn(<<<<"f", "l", "a", "g">>, <<"e", "n", "a", "b", "l", "e", "d">>, <<"a", "c", "t", "i", "v", "e">>>>, name) THEN "False"
    ELSE IF AnyIn(<<<<"d", "a", "t", "a">>, <<"c", "o", "n", "f", "i", "g">>, <<"o", "p", "t", "i", "o", "n", "s">>>>, name) THEN "{}"
    ELSE ""

\* _infer_empty_value
infer_empty_value(param_name) ==
    LET name == Lower(param_name) IN
    IF AnyIn(<<<<"c", "o", "u", "n", "t">>, <<"n", "u", "m">>, <<"s", "i", "z", "e">>, <<"l", "i", "m", "i", "t">>, <<"m", "a", "x">>, <<"m", "i", "n">>, <<"t", "i", "m", "e", "o", "u", "t">>, <<"d", "e", "l", "a", "y">>>>, name) THEN "0"
    ELSE IF AnyIn(<<<<"f", "l", "a", "g">>, <<"e", "n", "a", "b", "l", "e", "d">>, <<"a", "c", "t", "i", "v", "e">>>>, name) THEN "False"
    ELSE IF AnyIn(<<<<"d", "a", "t", "a">>, <<"c", "o", "n", "f", "i", "g">>, <<"o", "p", "t", "i", "o", "n", "s">>>>, name) THEN "{}"
    ELSE "\"\""

\* no heuristic call made yet
NotInferred == [ test |-> PyNone, empty |-> PyNone, called |-> {} ]

\* the argument heuristics at rest
HeuristicIdle ==
    /\ arg_in = [ name |-> <<>>, default |-> PyNone ]
    /\ arg_out = NotInferred

\* no orchestration started
NoCycle ==
    [ pc |-> "idle", impl |-> "agent", workspace |-> <<>>, repo_url |-> <<>>, base_url |-> <<>>,
      clone_result |-> <<>>, cloned |-> PyNone, repo_path |-> <<>>, files |-> 0,
      targets |-> <<>>, done_targets |-> 0, exec_result |-> <<>>, runs |-> <<>>,
      calls |-> <<>>, results |-> <<>> ]

\* the orchestrator at rest
CycleIdle == cycle = NoCycle

(***************************************************************************)
(* generator_agent.py: mock-strategy resolver.                             *)
(* A MockStrategy is [target, decorator, setup_lines, arg_name]; the       *)
(* decorator text '@patch("<target>"<extra>)' is kept as [patch, extra].   *)
(***************************************************************************)
MockStrategy(target, extra, setup_lines, arg_name) ==
    [ target |-> target,
      decorator |-> [patch |-> target, extra |-> extra],
      setup_lines |-> setup_lines,
      arg_name |-> arg_name ]

\* file-I/O rule keyed on a call named exactly "open" alone
file_strategies_exact(func_info, module) ==
    IF InList(<<"o", "p", "e", "n">>, func_info.calls)
    THEN << MockStrategy(<<"b", "u", "i", "l", "t", "i", "n", "s", ".", "o", "p", "e", "n">>,
                         ", new_callable=mock_open, read_data=\"test content\"",
                         <<>>, "mock_file") >>
    ELSE <<>>

\* resolve_mock_strategies, file-I/O rule
file_strategies(func_info, module) ==
    IF func_info.complexity_indicators.uses_file_io \/ InList(<<"o", "p", "e", "n">>, func_info.calls)
    THEN << MockStrategy(<<"b", "u", "i", "l", "t", "i", "n", "s", ".", "o", "p", "e", "n">>,
                         ", new_callable=mock_open, read_data=\"test content\"",
                         <<>>, "mock_file") >>
    ELSE <<>>

\* resolve_mock_strategies, subprocess rule
subprocess_strategies(func_info, module) ==
    IF \/ func_info.complexity_indicators.uses_subprocess
       \/ \E i \in 1..Len(func_info.calls) : Contains(func_info.calls[i], <<"s", "u", "b", "p", "r", "o", "c", "e", "s", "s">>)
    THEN << MockStrategy(module \o <<".", "s", "u", "b", "p", "r", "o", "c", "e", "s", "s", ".", "r", "u", "n">>, "",
                         << "mock_run.return_value = MagicMock(returncode=0, stdout=\"success\", stderr=\"\")" >>,
                         "mock_run") >>
    ELSE <<>>

\* resolve_mock_strategies, the HTTP client family: httpx unless a call
\* name contains "requests"
http_lib(calls) ==
    IF \E i \in 1..Len(calls) : Contains(calls[i], <<"r", "e", "q", "u", "e", "s", "t", "s">>)
    THEN "requests" ELSE "httpx"

\* resolve_mock_strategies, network rule
http_strategies(func_info, module) ==
    IF func_info.complexity_indicators.uses_http
    THEN IF http_lib(func_info.calls) = "httpx"
         THEN << MockStrategy(module \o <<".", "h", "t", "t", "p", "x", ".", "A", "s", "y", "n", "c", "C", "l", "i", "e", "n", "t">>, "",
                              << "mock_client_instance = AsyncMock()",
                                 "mock_response = MagicMock(status_code=200, text='ok')",
                                 "mock_response.json.return_value = {}",
                                 "mock_client_instance.post.return_value = mock_response",
                                 "mock_client_instance.get.return_value = mock_response",
                                 "mock_client.__aenter__.return_value = mock_client_instance" >>,
                              "mock_client") >>
         ELSE << MockStrategy(module \o <<".", "r", "e", "q", "u", "e", "s", "t", "s">>, "",
                              << "mock_req.get.return_value = MagicMock(status_code=200, text=\"ok\")",
                                 "mock_req.post.return_value = MagicMock(status_code=201, text=\"created\")" >>,
                              "mock_req") >>
    ELSE <<>>

\* resolve_mock_strategies, OS-access rule: the loop over the calls that
\* appends at the first call containing "os.path.exists" or "Path"
os_strategies(func_info, module) ==
    IF /\ func_info.complexity_indicators.uses_os
       /\ \E i \in 1..Len(func_info.calls) :
              \/ Contains(func_info.calls[i], <<"o", "s", ".", "p", "a", "t", "h", ".", "e", "x", "i", "s", "t", "s">>)
              \/ Contains(func_info.calls[i], <<"P", "a", "t", "h">>)
    THEN << MockStrategy(module \o <<".", "o", "s", ".", "p", "a", "t", "h", ".", "e", "x", "i", "s", "t", "s">>, ", return_value=True",
                         <<>>, "mock_exists") >>
    ELSE <<>>

\* the rules applied with the network rule ahead of the subprocess rule
resolve_mock_strategies_reordered(func_info, module) ==
    file_strategies(func_info, module)
        \o http_strategies(func_info, module)
        \o subprocess_strategies(func_info, module)
        \o os_strategies(func_info, module)

\* resolve_mock_strategies
resolve_mock_strategies(func_info, module) ==
    file_strategies(func_info, module)
        \o subprocess_strategies(func_info, module)
        \o http_strategies(func_info, module)
        \o os_strategies(func_info, module)

(***************************************************************************)
(* generator_agent.py: test templates for one function.                    *)
(* A call expression is [await, name, args], an argument [name, value];    *)
(* a case is [kind, of, decorators, asyncio, params, setup, call,          *)
(* parametrize, assert_called]: "test_<of>_<kind>".                        *)
(***************************************************************************)
NoParametrize == [ name |-> <<>>, values |-> <<>> ]

TestCase(kind, decorators, is_async, params, setup, call, parametrize, assert_called) ==
    [ kind |-> kind, of |-> call.name, decorators |-> decorators, asyncio |-> is_async,
      params |-> params, setup |-> setup, call |-> call,
      parametrize |-> parametrize, assert_called |-> assert_called ]

\* the keyword arguments "name=<happy value>" of every parameter
happy_args(args) ==
    [ i \in 1..Len(args) |->
        [ name |-> args[i].name,
          value |-> infer_test_value(args[i].name, args[i].default) ] ]

\* _build_function_call
build_function_call(func_info, module) ==
    [ await |-> func_info.is_async, name |-> func_info.name,
      args |-> happy_args(func_info.args) ]

\* every parameter replaced by ""
none_call_args_all(args) ==
    [ i \in 1..Len(args) |-> [ name |-> args[i].name, value |-> "\"\"" ] ]

\* _generate_function_tests, none_call_args: the parameter named like the
\* first one gets "", every other one its happy value
none_call_args(args) ==
    [ i \in 1..Len(args) |->
        [ name |-> args[i].name,
          value |-> IF args[i].name = args[1].name
                    THEN "\"\""
                    ELSE infer_test_value(args[i].name, args[i].default) ] ]

\* [s.arg_name for s in strategies if s.arg_name]
mock_params(strats) ==
    LET named == SelectSeq(strats, LAMBDA s : s.arg_name # PyNone)
    IN [i \in 1..Len(named) |-> named[i].arg_name]

\* _generate_function_tests, 1: success case
success_test(func_info, module, strats) ==
    << TestCase("success",
                Reversed([i \in 1..Len(strats) |-> strats[i].decorator]),
                func_info.is_async,
                mock_params(strats),
                Flatten([i \in 1..Len(strats) |-> strats[i].setup_lines]),
                build_function_call(func_info, module),
                NoParametrize,
                LET subs == SelectSeq(strats, LAMBDA s : Contains(s.target, <<"s", "u", "b", "p", "r", "o", "c", "e", "s", "s">>))
                IN [i \in 1..Len(subs) |-> subs[i].arg_name]) >>

\* _generate_function_tests, 2: empty-input case
empty_test(func_info, module, strats) ==
    IF func_info.args # <<>>
    THEN << TestCase("empty_input",
                     Reversed([i \in 1..Len(strats) |-> strats[i].decorator]),
                     func_info.is_async,
                     mock_params(strats),
                     Flatten([i \in 1..Len(strats) |-> strats[i].setup_lines]),
                     [ await |-> func_info.is_async, name |-> func_info.name,
                       args |-> none_call_args(func_info.args) ],
                     NoParametrize, <<>>) >>
    ELSE <<>>

\* _generate_function_tests, 3: parametrized edge cases
param_test(func_info, module, strats) ==
    IF func_info.args # <<>>
    THEN LET first == func_info.args[1]
             good_val == infer_test_value(first.name, first.default)
             empty_val == infer_empty_value(first.name)
         IN << TestCase("various_inputs", <<>>, func_info.is_async, <<>>, <<>>,
                        [ await |-> func_info.is_async, name |-> func_info.name,
                          args |-> << [ name |-> first.name, value |-> "<param>_val" ] >> ],
                        [ name |-> first.name \o <<"_", "v", "a", "l">>,
                          values |-> << good_val, empty_val, "\"   \"" >> ],
                        <<>>) >>
    ELSE <<>>

\* error-handling case for any mocked function, handler or not
needs_error_test_any(cx, strats) == strats # <<>>

\* _generate_function_tests, 4: the condition of the error-handling case
needs_error_test(cx, strats) == cx.has_try_except /\ strats # <<>>

\* _generate_function_tests, 4: error-handling case
error_test(func_info, module, strats) ==
    IF needs_error_test(func_info.complexity_indicators, strats)
    THEN LET first_strategy == strats[1]
             error_mock_arg == IF first_strategy.arg_name # PyNone
                               THEN first_strategy.arg_name ELSE "mock_dep"
         IN << TestCase("error_handling", << first_strategy.decorator >>,
                        func_info.is_async, << error_mock_arg >>,
                        << "<mock>.side_effect = Exception(\"Test error\")" >>,
                        build_function_call(func_info, module),
                        NoParametrize, <<>>) >>
    ELSE <<>>

\* next((s for s in strategies if <word> in <text of s>), None), as the
\* list of zero or one strategy
first_with(strats, Pred(_)) ==
    LET hits == SelectSeq(strats, Pred)
    IN IF hits = <<>> THEN <<>> ELSE << hits[1] >>

\* _generate_function_tests, 5: subprocess timeout and non-zero exit cases
subprocess_tests(func_info, module, strats) ==
    LET sub == first_with(strats, LAMBDA s : Contains(s.target, <<"s", "u", "b", "p", "r", "o", "c", "e", "s", "s">>)) IN
    IF func_info.complexity_indicators.uses_subprocess /\ sub # <<>>
    THEN << TestCase("subprocess_timeout", << sub[1].decorator >>,
                     func_info.is_async, << sub[1].arg_name >>,
                     << "<mock>.side_effect = _sp.TimeoutExpired(cmd=\"test\", timeout=5)" >>,
                     build_function_call(func_info, module), NoParametrize, <<>>),
            TestCase("subprocess_failure", << sub[1].decorator >>,
                     func_info.is_async, << sub[1].arg_name >>,
                     << "<mock>.return_value = MagicMock(returncode=1, stdout=\"\", stderr=\"command failed\")" >>,
                     build_function_call(func_info, module), NoParametrize, <<>>) >>
    ELSE <<>>

\* _generate_function_tests, 6: missing-file case
file_tests(func_info, module, strats) ==
    LET file_strategy == first_with(strats, LAMBDA s : Contains(s.target, <<"o", "p", "e", "n">>)) IN
    IF func_info.complexity_indicators.uses_file_io /\ file_strategy # <<>>
    THEN << TestCase("file_not_found",
                     << [ patch |-> <<"b", "u", "i", "l", "t", "i", "n", "s", ".", "o", "p", "e", "n">>,
                          extra |-> ", side_effect=FileNotFoundError(\"not found\")" ] >>,
                     func_info.is_async, << "mock_file" >>, <<>>,
                     build_function_call(func_info, module), NoParametrize, <<>>) >>
    ELSE <<>>

\* _generate_function_tests, 7: the strategy the HTTP case is built from
http_strategy_of(strats) ==
    first_with(strats, LAMBDA s : Contains(Lower(s.target), <<"h", "t", "t", "p">>))

\* _generate_function_tests, 7: connection-failure case
http_tests(func_info, module, strats) ==
    LET http_strategy == http_strategy_of(strats) IN
    IF func_info.complexity_indicators.uses_http /\ http_strategy # <<>>
    THEN << TestCase("http_error", << http_strategy[1].decorator >>,
                     func_info.is_async, << http_strategy[1].arg_name >>,
                     << "<mock>.side_effect = Exception(\"Connection refused\")" >>,
                     build_function_call(func_info, module), NoParametrize, <<>>) >>
    ELSE <<>>

\* _generate_function_tests: the list "tests" for given resolved strategies
function_tests(func_info, module, strats) ==
    success_test(func_info, module, strats)
        \o empty_test(func_info, module, strats)
        \o param_test(func_info, module, strats)
        \o error_test(func_info, module, strats)
        \o subprocess_tests(func_info, module, strats)
        \o file_tests(func_info, module, strats)
        \o http_tests(func_info, module, strats)

\* _generate_function_tests: the test class of one function
generate_function_tests(func_info, module) ==
    [ kind |-> "function", name |-> func_info.name,
      tests |-> function_tests(func_info, module,
                               resolve_mock_strategies(func_info, module)) ]

(***************************************************************************)
(* generator_agent.py: test templates for one class.                       *)
(***************************************************************************)
\* a method gets cases unless it is the constructor
is_tested_method_but_init(method) == method.name # <<"_", "_", "i", "n", "i", "t", "_", "_">>

\* _generate_class_tests: a method gets cases unless its name starts with
\* an underscore (private methods and __init__)
is_tested_method(method) == ~ StartsWith(method.name, <<"_">>)

\* _generate_class_tests: the two cases of one public method
method_tests(method, module) ==
    LET strats == resolve_mock_strategies(method, module)
        call == [ await |-> method.is_async, name |-> method.name,
                  args |-> happy_args(method.args) ]
    IN << TestCase("success",
                   Reversed([i \in 1..Len(strats) |-> strats[i].decorator]),
                   method.is_async, mock_params(strats),
                   Flatten([i \in 1..Len(strats) |-> strats[i].setup_lines]),
                   call, NoParametrize, <<>>),
          TestCase("is_callable", <<>>, FALSE, <<>>, <<>>,
                   [ await |-> FALSE, name |-> method.name, args |-> <<>> ],
                   NoParametrize, <<>>) >>

\* _generate_class_tests: the test class of one source class
generate_class_tests(cls_info, module) ==
    LET tested == SelectSeq(cls_info.methods, is_tested_method) IN
    [ kind |-> "class", name |-> cls_info.name,
      tests |->
        << TestCase("fixture", <<>>, FALSE, <<>>, <<>>,
                    [ await |-> FALSE, name |-> cls_info.name,
                      args |-> happy_args(cls_info.init_args) ],
                    NoParametrize, <<>>),
           TestCase("instantiation", <<>>, FALSE, <<>>, <<>>,
                    [ await |-> FALSE, name |-> cls_info.name, args |-> <<>> ],
                    NoParametrize, <<>>) >>
        \o Flatten([i \in 1..Len(tested) |-> method_tests(tested[i], module)]) ]

\* the unittest.mock helpers a piece of template text names
mentions(text) ==
    CASE text = ", new_callable=mock_open, read_data=\"test content\"" -> { "mock_open" }
      [] text = "mock_run.return_value = MagicMock(returncode=0, stdout=\"success\", stderr=\"\")" -> { "MagicMock" }
      [] text = "mock_client_instance = AsyncMock()" -> { "AsyncMock" }
      [] text = "mock_response = MagicMock(status_code=200, text='ok')" -> { "MagicMock" }
      [] text = "mock_req.get.return_value = MagicMock(status_code=200, text=\"ok\")" -> { "MagicMock" }
      [] text = "mock_req.post.return_value = MagicMock(status_code=201, text=\"created\")" -> { "MagicMock" }
      [] text = "<mock>.return_value = MagicMock(returncode=1, stdout=\"\", stderr=\"command failed\")" -> { "MagicMock" }
      [] OTHER -> {}

\* the unittest.mock helpers the text of one rendered case names: "patch"
\* in every decorator line, and what the decorator arguments and the setup
\* lines name
case_helpers(case) ==
    (IF case.decorators = <<>> THEN {} ELSE { "patch" })
        \cup UNION { mentions(case.decorators[i].extra) : i \in 1..Len(case.decorators) }
        \cup UNION { mentions(case.setup[i]) : i \in 1..Len(case.setup) }

(***************************************************************************)
(* The repository on disk.  A path is [dir, stem, ext]; the repository     *)
(* maps every path of WalkOrder to the content of the file there.          *)
(***************************************************************************)
FilePath(dir, stem, ext) == [ dir |-> dir, stem |-> stem, ext |-> ext ]

\* the empty string where a path is expected
NoPath == FilePath(<<>>, <<>>, <<>>)

\* the path as the string os.path.join(root, fname)
PathStr(p) ==
    (IF p.dir = <<>> THEN <<>> ELSE p.dir \o <<"/">>) \o p.stem \o p.ext

\* the candidate files, in the order os.walk meets them: the files of the
\* root in sorted order, then directory by directory
WalkOrder ==
    << FilePath(<<>>, <<"n", "o", "t", "e", "s">>, <<".", "m", "d">>),
       FilePath(<<>>, <<"u", "t", "i", "l", "s">>, <<".", "p", "y">>),
       FilePath(<<".", "g", "i", "t">>, <<"h", "o", "o", "k">>, <<".", "p", "y">>),
       FilePath(<<"p", "k", "g", "_", "a">>, <<"u", "t", "i", "l", "s">>, <<".", "p", "y">>),
       FilePath(<<"p", "k", "g", "_", "b">>, <<"c", "o", "r", "e">>, <<".", "p", "y">>),
       FilePath(<<"t", "e", "s", "t", "s">>, <<"t", "e", "s", "t", "_", "c", "o", "r", "e">>, <<".", "p", "y">>) >>

Paths == { WalkOrder[i] : i \in 1..Len(WalkOrder) }

\* function and class definitions found in the modelled files
FetchNode ==
    [ name |-> <<"f", "e", "t", "c", "h">>, args |-> << [name |-> <<"u", "r", "l">>, default |-> PyNone] >>,
      is_async |-> FALSE, body |-> << <<"r", "e", "q", "u", "e", "s", "t", "s", ".", "g", "e", "t">> >>, wrapped |-> FALSE ]

InitNode ==
    [ name |-> <<"_", "_", "i", "n", "i", "t", "_", "_">>, args |-> << [name |-> <<"t", "i", "m", "e", "o", "u", "t">>, default |-> "30"] >>,
      is_async |-> FALSE, body |-> <<>>, wrapped |-> FALSE ]

RunNode ==
    [ name |-> <<"r", "u", "n">>, args |-> << [name |-> <<"c", "m", "d">>, default |-> PyNone] >>,
      is_async |-> TRUE, body |-> << <<"s", "u", "b", "p", "r", "o", "c", "e", "s", "s", ".", "r", "u", "n">> >>, wrapped |-> TRUE ]

HelperNode ==
    [ name |-> <<"_", "h", "e", "l", "p", "e", "r">>, args |-> <<>>,
      is_async |-> FALSE, body |-> << <<"o", "p", "e", "n">> >>, wrapped |-> FALSE ]

RunnerNode ==
    [ name |-> <<"R", "u", "n", "n", "e", "r">>, methods |-> << InitNode, RunNode, HelperNode >> ]

\* file contents: no file, a file open() fails on, a file ast.parse
\* rejects, and parsable sources (the zero-byte file among them)
Absent == [ kind |-> "absent", functions |-> <<>>, classes |-> <<>> ]
Unreadable == [ kind |-> "unreadable", functions |-> <<>>, classes |-> <<>> ]
Malformed == [ kind |-> "syntax_error", functions |-> <<>>, classes |-> <<>> ]
Source(functions, classes) ==
    [ kind |-> "source", functions |-> functions, classes |-> classes ]
ZeroBytes == Source(<<>>, <<>>)

Contents ==
    { Absent, Unreadable, Malformed, ZeroBytes,
      Source(<< FetchNode >>, <<>>),
      Source(<<>>, << RunnerNode >>),
      Source(<< FetchNode >>, << RunnerNode >>) }

Repositories ==
    { r \in [Paths -> Contents] :
        /\ r[WalkOrder[1]] = ZeroBytes
        /\ r[WalkOrder[3]] = Source(<< FetchNode >>, <<>>)
        /\ r[WalkOrder[5]] \in { Absent, Unreadable, ZeroBytes, Source(<<>>, << RunnerNode >>) }
        /\ r[WalkOrder[6]] \in { Absent, Source(<< FetchNode >>, <<>>) } }

(***************************************************************************)
(* analyzer_agent.py: analyze_file and analyze_directory.                  *)
(***************************************************************************)
\* ModuleAnalyzer.visit_ClassDef
analyze_class(node) ==
    LET methods == [i \in 1..Len(node.methods) |-> analyze_function(node.methods[i])]
        inits == SelectSeq(methods, LAMBDA m : m.name = <<"_", "_", "i", "n", "i", "t", "_", "_">>)
    IN [ name |-> node.name,
         has_init |-> inits # <<>>,
         init_args |-> IF inits = <<>> THEN <<>> ELSE inits[Len(inits)].args,
         methods |-> methods ]

\* analyze_file, the record of a file that could not be read or parsed
error_analysis(filepath, error) ==
    [ module |-> PathStr(filepath), filepath |-> NoPath, functions |-> <<>>,
      classes |-> <<>>, imports |-> <<>>, error |-> error ]

\* analyze_file
analyze_file(files, filepath) ==
    LET content == files[filepath] IN
    CASE content.kind = "syntax_error" ->
            error_analysis(filepath, "SyntaxError: invalid syntax")
      [] content.kind = "unreadable" ->
            error_analysis(filepath, "[Errno 13] Permission denied")
      [] content.kind = "absent" ->
            error_analysis(filepath, "[Errno 2] No such file or directory")
      [] OTHER ->
            [ module |-> filepath.stem,
              filepath |-> filepath,
              functions |-> [i \in 1..Len(content.functions) |->
                                analyze_function(content.functions[i])],
              classes |-> [i \in 1..Len(content.classes) |->
                                analyze_class(content.classes[i])],
              imports |-> <<>>,
              error |-> PyNone ]

\* analyze_directory: skip_dirs
skip_dirs ==
    { <<"_", "_", "p", "y", "c", "a", "c", "h", "e", "_", "_">>, <<".", "g", "i", "t">>, <<"n", "o", "d", "e", "_", "m", "o", "d", "u", "l", "e", "s">>, <<"v", "e", "n", "v">>, <<".", "v", "e", "n", "v">>, <<"e", "n", "v">>, <<".", "e", "n", "v">>,
      <<".", "t", "o", "x">>, <<".", "m", "y", "p", "y", "_", "c", "a", "c", "h", "e">>, <<".", "p", "y", "t", "e", "s", "t", "_", "c", "a", "c", "h", "e">> }

\* analyze_directory: the directory is walked (not pruned from dirs)
dir_walked(dir) == dir = <<>> \/ (dir \notin skip_dirs /\ ~ StartsWith(dir, <<".">>))

\* analyze_directory's default for max_files
DefaultMaxFiles == 50

RECURSIVE scan_from_abort(_, _, _, _)
\* the scan given up at the first file that fails to parse
scan_from_abort(files, i, results, max_files) ==
    IF i > Len(WalkOrder) THEN results
    ELSE LET p == WalkOrder[i] IN
         IF files[p].kind = "absent" \/ ~ dir_walked(p.dir) \/ p.ext # <<".", "p", "y">>
         THEN scan_from_abort(files, i + 1, results, max_files)
         ELSE IF Len(results) >= max_files
         THEN results
         ELSE IF analyze_file(files, p).error # PyNone
         THEN Append(results, analyze_file(files, p))
         ELSE scan_from_abort(files, i + 1, Append(results, analyze_file(files, p)), max_files)

RECURSIVE scan_from(_, _, _, _)
\* analyze_directory: the loops over os.walk, from the i-th candidate on
scan_from(files, i, results, max_files) ==
    IF i > Len(WalkOrder) THEN results
    ELSE LET p == WalkOrder[i] IN
         IF files[p].kind = "absent" \/ ~ dir_walked(p.dir) \/ p.ext # <<".", "p", "y">>
         THEN scan_from(files, i + 1, results, max_files)
         ELSE IF Len(results) >= max_files
         THEN results
         ELSE scan_from(files, i + 1, Append(results, analyze_file(files, p)), max_files)

\* analyze_directory
analyze_directory(files, max_files) == scan_from(files, 1, <<>>, max_files)

(***************************************************************************)
(* orchestrator_agent.py: select_test_targets.  Scores are kept in half    *)
(* points (the float 4.5 is the integer 9), so that the 0.5 a method       *)
(* indicator adds is exact.                                                *)
(***************************************************************************)
EXCLUDE_PATTERNS ==
    { <<"_", "_", "i", "n", "i", "t", "_", "_">>, <<"c", "o", "n", "f", "t", "e", "s", "t">>, <<"s", "e", "t", "u", "p">>, <<"m", "a", "n", "a", "g", "e">>, <<"w", "s", "g", "i">>, <<"a", "s", "g", "i">>,
      <<"a", "l", "e", "m", "b", "i", "c">>, <<"m", "i", "g", "r", "a", "t", "i", "o", "n">>, <<"v", "e", "r", "s", "i", "o", "n">>, <<"c", "e", "l", "e", "r", "y", "c", "o", "n", "f", "i", "g">> }

EXCLUDE_PREFIXES == << <<"t", "e", "s", "t", "_">>, <<"t", "e", "s", "t", "s", "_">> >>

EXCLUDE_DIRS == { <<"m", "i", "g", "r", "a", "t", "i", "o", "n", "s">>, <<"a", "l", "e", "m", "b", "i", "c">>, <<"v", "e", "r", "s", "i", "o", "n", "s">>, <<"_", "_", "p", "y", "c", "a", "c", "h", "e", "_", "_">> }

\* select_test_targets' default for max_targets
DefaultMaxTargets == 10

\* s.replace(old, new) for one-character old and new
Replace(s, old, new) == [i \in 1..Len(s) |-> IF s[i] = old THEN new ELSE s[i]]

RECURSIVE Split(_, _)
\* s.split(sep) for a one-character sep
Split(s, sep) ==
    IF \A i \in 1..Len(s) : s[i] # sep THEN << s >>
    ELSE LET i == CHOOSE k \in 1..Len(s) :
                      s[k] = sep /\ \A j \in 1..(k - 1) : s[j] # sep
         IN << SubSeq(s, 1, i - 1) >> \o Split(SubSeq(s, i + 1, Len(s)), sep)

RECURSIVE SumSeq(_)
\* sum(...) over a list of numbers
SumSeq(ns) == IF ns = <<>> THEN 0 ELSE Head(ns) + SumSeq(Tail(ns))

\* sum(1 for v in cx.values() if v)
true_values(cx) == Cardinality({ k \in DOMAIN cx : cx[k] })

\* select_test_targets with the directory test left out
is_candidate_any_dir(data) ==
    LET module == Lower(data.module) IN
    /\ data.error = PyNone
    /\ module \notin EXCLUDE_PATTERNS
    /\ ~ \E i \in 1..Len(EXCLUDE_PREFIXES) : StartsWith(module, EXCLUDE_PREFIXES[i])
    /\ ~ (data.functions = <<>> /\ data.classes = <<>>)

\* select_test_targets: the record passes every "continue" of the loop
is_candidate(data) ==
    LET module == Lower(data.module)
        parts == Split(Replace(PathStr(data.filepath), "\\", "/"), "/")
    IN /\ data.error = PyNone
       /\ module \notin EXCLUDE_PATTERNS
       /\ ~ \E i \in 1..Len(EXCLUDE_PREFIXES) : StartsWith(module, EXCLUDE_PREFIXES[i])
       /\ ~ \E i \in 1..Len(parts) : parts[i] \in EXCLUDE_DIRS
       /\ ~ (data.functions = <<>> /\ data.classes = <<>>)

\* select_test_targets: the score of one record, in half points
score(data) ==
    4 * Len(data.functions) + 6 * Len(data.classes)
        + SumSeq([i \in 1..Len(data.functions) |->
                    2 * true_values(data.functions[i].complexity_indicators)])
        + SumSeq([i \in 1..Len(data.classes) |->
                    SumSeq([j \in 1..Len(data.classes[i].methods) |->
                        true_values(data.classes[i].methods[j].complexity_indicators)])])

\* select_test_targets: the list "scored" before the sort
scored_of(records) ==
    LET kept == SelectSeq(records, is_candidate)
    IN [i \in 1..Len(kept) |-> [ score |-> score(kept[i]), data |-> kept[i] ]]

\* an item placed ahead of the items of equal score
insert_by_score_first(sorted, item) ==
    LET k == Cardinality({ i \in 1..Len(sorted) : sorted[i].score > item.score })
    IN SubSeq(sorted, 1, k) \o << item >> \o SubSeq(sorted, k + 1, Len(sorted))

\* one step of the stable descending sort: the item goes behind every item
\* whose score is not lower
insert_by_score(sorted, item) ==
    LET k == Cardinality({ i \in 1..Len(sorted) : sorted[i].score >= item.score })
    IN SubSeq(sorted, 1, k) \o << item >> \o SubSeq(sorted, k + 1, Len(sorted))

RECURSIVE sort_by_score(_)
\* scored.sort(key=lambda x: x[0], reverse=True)
sort_by_score(scored) ==
    IF scored = <<>> THEN <<>>
    ELSE insert_by_score(sort_by_score(SubSeq(scored, 1, Len(scored) - 1)),
                         scored[Len(scored)])

\* list[:n]
SliceTo(list, n) ==
    IF n >= 0
    THEN SubSeq(list, 1, IF n < Len(list) THEN n ELSE Len(list))
    ELSE SubSeq(list, 1, IF Len(list) + n > 0 THEN Len(list) + n ELSE 0)

\* select_test_targets
select_test_targets(records, max_targets) ==
    LET scored == SliceTo(sort_by_score(scored_of(records)), max_targets)
    IN [i \in 1..Len(scored) |-> scored[i].data]

(***************************************************************************)
(* generator_agent.py: generate_test_file.                                 *)
(***************************************************************************)
\* the nothing-to-test check looking at the functions alone
nothing_to_test_funcs(analysis) == analysis.functions = <<>>

\* a generator that finds something to test in every analysis
nothing_to_test_never(analysis) == FALSE

\* generate_test_file: "if not functions and not classes: return None"
nothing_to_test(analysis) ==
    analysis.functions = <<>> /\ analysis.classes = <<>>

\* generate_test_file: the names after "from unittest.mock import"
mock_imports(analysis) ==
    LET units == analysis.functions
                    \o Flatten([i \in 1..Len(analysis.classes) |->
                                    analysis.classes[i].methods])
        strats(u) == resolve_mock_strategies(u, analysis.module)
        needs_patch == \E i \in 1..Len(units) : strats(units[i]) # <<>>
        needs_magicmock == needs_patch
        needs_mock_open ==
            \E i \in 1..Len(units) : \E j \in 1..Len(strats(units[i])) :
                Contains(strats(units[i])[j].target, <<"o", "p", "e", "n">>)
        needs_async_mock == \E i \in 1..Len(units) : units[i].is_async
    IN (IF needs_patch THEN << "patch" >> ELSE <<>>)
        \o (IF needs_magicmock THEN << "MagicMock" >> ELSE <<>>)
        \o (IF needs_mock_open THEN << "mock_open" >> ELSE <<>>)
        \o (IF needs_async_mock THEN << "AsyncMock" >> ELSE <<>>)

\* generate_test_file: import_names
import_names(analysis) ==
    [i \in 1..Len(analysis.functions) |-> analysis.functions[i].name]
        \o [i \in 1..Len(analysis.classes) |-> analysis.classes[i].name]

\* tokens of generated Python text
Tok(t, v) == [ t |-> t, v |-> v ]

RECURSIVE join_fallback(_)
\* generate_test_file: ', '.join(f'{n} = None' for n in import_names), the
\* statement in the "except ImportError" branch, as a token list
join_fallback(names) ==
    IF names = <<>> THEN <<>>
    ELSE << Tok("name", Head(names)), Tok("=", <<>>), Tok("None", <<>>) >>
            \o (IF Tail(names) = <<>> THEN <<>>
                ELSE << Tok(",", <<>>) >> \o join_fallback(Tail(names)))

\* The statement of the "except ImportError" branch is a Python assignment
\* statement "targets = targets = ... = value": every expression list left
\* of an "=" is a target list, and the keyword None is not an assignable
\* target, so the statement parses only if no None stands left of an "=".
valid_fallback(toks) ==
    \A i, j \in 1..Len(toks) :
        (i < j /\ toks[j].t = "=") => toks[i].t # "None"

\* generate_test_file: the rendered module (header and body_parts)
render_test_module(analysis) ==
    [ module |-> analysis.module,
      mock_imports |-> mock_imports(analysis),
      import_names |-> import_names(analysis),
      fallback |-> join_fallback(import_names(analysis)),
      body_parts |->
        [i \in 1..Len(analysis.functions) |->
            generate_function_tests(analysis.functions[i], analysis.module)]
        \o [i \in 1..Len(analysis.classes) |->
            generate_class_tests(analysis.classes[i], analysis.module)] ]

\* generate_test_file: test_filename
test_filename(module) == <<"t", "e", "s", "t", "_">> \o module \o <<".", "p", "y">>

\* generate_test_file: test_filepath = os.path.join(output_dir, test_filename)
test_filepath(output_dir, module) ==
    [ dir |-> output_dir, name |-> test_filename(module) ]

\* values generate_test_file returns, or the exception leaving it
RetNone == [ kind |-> "none", path |-> [dir |-> <<>>, name |-> <<>>] ]
RetRaised == [ kind |-> "raised", path |-> [dir |-> <<>>, name |-> <<>>] ]
RetPath(p) == [ kind |-> "path", path |-> p ]

\* outcomes of the file-system calls of generate_test_file
IOOutcomes == { "ok", "makedirs_fails", "open_fails" }

\* generate_test_file: the value returned and the output directory after
\* the call; io is what os.makedirs and open(..., "w") do
generate_test_file(analysis, output_dir, io) ==
    IF nothing_to_test(analysis)
    THEN [ ret |-> RetNone, dir_created |-> dir_created,
           out_files |-> out_files, writers |-> writers ]
    ELSE IF io = "makedirs_fails"
    THEN [ ret |-> RetRaised, dir_created |-> dir_created,
           out_files |-> out_files, writers |-> writers ]
    ELSE IF io = "open_fails"
    THEN [ ret |-> RetRaised, dir_created |-> TRUE,
           out_files |-> out_files, writers |-> writers ]
    ELSE LET target == test_filepath(output_dir, analysis.module) IN
         [ ret |-> RetPath(target), dir_created |-> TRUE,
           out_files |->
               { f \in out_files : f.name # target.name }
                   \cup { [ name |-> target.name,
                            content |-> render_test_module(analysis) ] },
           writers |->
               writers \cup { [ name |-> target.name,
                                source |-> analysis.filepath ] } ]

(***************************************************************************)
(* generator_agent.py: run_unit_test_generation, and the scanner used on   *)
(* its own.                                                                *)
(***************************************************************************)
\* run_unit_test_generation: test_dir under the verified repository path
test_dir == <<"t", "e", "s", "t", "s", "/", "g", "e", "n", "e", "r", "a", "t", "e", "d">>

NoMode == [ op |-> "none", repo_path |-> "", target_file |-> NoPath, max_files |-> 0 ]
NoGen == [ called |-> FALSE, analysis |-> error_analysis(NoPath, PyNone),
           ret |-> RetNone, dir_before |-> FALSE, files_before |-> {} ]

\* largest max_files a direct scan is called with, besides the default
MaxFilesArg == 2

\* largest max_targets a selection is called with, besides the default
MaxTargetsArg == 2

\* no select_test_targets call yet
NoTargets == [ called |-> FALSE, max_targets |-> 0, scored |-> <<>>, selected |-> <<>> ]

\* repository paths handed to the entry point: blank, not on disk, the repository
RepoPaths == { "  ", "/no/such/dir", "/repo" }

InitFiles ==
    /\ pc = "idle"
    /\ repo \in Repositories
    /\ mode = NoMode
    /\ analyses = <<>>
    /\ idx = 0
    /\ generated_files = <<>>
    /\ dir_created = FALSE
    /\ out_files = {}
    /\ writers = {}
    /\ last_gen = NoGen
    /\ result = PyNone
    /\ targets = NoTargets

\* a call of analyze_directory(repo, max_files)
AnalyzeDirectory(max_files) ==
    /\ pc = "idle"
    /\ mode' = [ NoMode EXCEPT !.op = "scan", !.max_files = max_files ]
    /\ analyses' = analyze_directory(repo, max_files)
    /\ pc' = "scanned"
    /\ UNCHANGED <<repo, idx, generated_files, dir_created, out_files,
                   writers, last_gen, result>>
    /\ UNCHANGED <<varsS, varsO, varsA, varsH, varsC>>

\* run_unit_test_generation up to the first generate_test_file call: the
\* precondition checks, and the analysis of the target or of the repository
RunStart(repo_path, target_file) ==
    /\ pc = "idle"
    /\ mode' = [ op |-> "run", repo_path |-> repo_path,
                 target_file |-> target_file, max_files |-> DefaultMaxFiles ]
    /\ IF repo_path = "  "
       THEN /\ result' = "Error: Repository path is required"
            /\ pc' = "done"
            /\ UNCHANGED <<analyses, idx>>
       ELSE IF repo_path # "/repo"
       THEN /\ result' = "Error: Path not found"
            /\ pc' = "done"
            /\ UNCHANGED <<analyses, idx>>
       ELSE IF target_file # NoPath
       THEN IF repo[target_file].kind = "absent"
            THEN /\ result' = "Error: File not found"
                 /\ pc' = "done"
                 /\ UNCHANGED <<analyses, idx>>
            ELSE IF analyze_file(repo, target_file).error # PyNone
            THEN /\ result' = "Error analyzing file"
                 /\ pc' = "done"
                 /\ UNCHANGED <<analyses, idx>>
            ELSE /\ analyses' = << analyze_file(repo, target_file) >>
                 /\ idx' = 1
                 /\ pc' = "single"
                 /\ UNCHANGED result
       ELSE /\ analyses' = analyze_directory(repo, DefaultMaxFiles)
            /\ idx' = 1
            /\ pc' = "loop"
            /\ UNCHANGED result
    /\ UNCHANGED <<repo, generated_files, dir_created, out_files, writers, last_gen>>
    /\ UNCHANGED <<varsS, varsO, varsA, varsH, varsC>>

\* the effect of "result = generate_test_file(analysis, test_dir)" followed
\* by "if result: generated_files.append(result)"; an OSError leaves the
\* entry point, which has no handler for it
CallGenerate(analysis, io) ==
    LET g == generate_test_file(analysis, test_dir, io) IN
    /\ io = "makedirs_fails" => ~ dir_created
    /\ last_gen' = [ called |-> TRUE, analysis |-> analysis, ret |-> g.ret,
                     dir_before |-> dir_created, files_before |-> out_files ]
    /\ dir_created' = g.dir_created
    /\ out_files' = g.out_files
    /\ writers' = g.writers
    /\ IF g.ret.kind = "raised"
       THEN /\ pc' = "raised"
            /\ result' = "OSError"
            /\ UNCHANGED <<idx, generated_files>>
       ELSE /\ idx' = idx + 1
            /\ generated_files' = IF g.ret.kind = "path"
                                  THEN Append(generated_files, g.ret.path)
                                  ELSE generated_files
            /\ UNCHANGED <<pc, result>>

\* run_unit_test_generation, single file mode: the generate_test_file call
GenerateSingle(io) ==
    /\ pc = "single"
    /\ idx = 1
    /\ CallGenerate(analyses[1], io)
    /\ UNCHANGED <<repo, mode, analyses>>
    /\ UNCHANGED <<varsS, varsO, varsA, varsH, varsC>>

\* run_unit_test_generation, full repository mode: one iteration of
\* "for analysis in analyses"
LoopStep(io) ==
    /\ pc = "loop"
    /\ idx <= Len(analyses)
    /\ LET analysis == analyses[idx] IN
       IF \/ analysis.error # PyNone
          \/ StartsWith(analysis.module, <<"t", "e", "s", "t", "_">>)
          \/ analysis.module = <<"_", "_", "i", "n", "i", "t", "_", "_">>
       THEN /\ io = "ok"
            /\ idx' = idx + 1
            /\ UNCHANGED <<pc, generated_files, dir_created, out_files,
                           writers, last_gen, result>>
       ELSE CallGenerate(analysis, io)
    /\ UNCHANGED <<repo, mode, analyses>>
    /\ UNCHANGED <<varsS, varsO, varsA, varsH, varsC>>

\* run_unit_test_generation: the status returned after the last file
Finish ==
    /\ pc \in { "single", "loop" }
    /\ idx > Len(analyses)
    /\ result' = IF generated_files = <<>>
                 THEN "No testable code found"
                 ELSE "Unit Tests Generated Successfully"
    /\ pc' = "done"
    /\ UNCHANGED <<repo, mode, analyses, idx, generated_files, dir_created,
                   out_files, writers, last_gen>>
    /\ UNCHANGED <<varsS, varsO, varsA, varsH, varsC>>

\* a call of select_test_targets(analyses, max_targets) on the list a scan
\* returned (orchestrate_full_qa_cycle, phase 3, uses the default)
SelectTestTargets(max_targets) ==
    /\ pc = "scanned"
    /\ targets' = [ called |-> TRUE, max_targets |-> max_targets,
                    scored |-> sort_by_score(scored_of(analyses)),
                    selected |-> select_test_targets(analyses, max_targets) ]
    /\ pc' = "selected"
    /\ UNCHANGED <<repo, mode, analyses, idx, generated_files, dir_created,
                   out_files, writers, last_gen, result>>
    /\ UNCHANGED <<varsS, varsA, varsH, varsC>>

(***************************************************************************)
(* Function-level pipeline: one function definition is analyzed, then the  *)
(* resolver or the template engine is applied to its metadata.             *)
(***************************************************************************)
NoFn == [ name |-> <<>>, args |-> <<>>, is_async |-> FALSE, calls |-> <<>>,
          raises |-> <<>>, has_return |-> FALSE,
          complexity_indicators |-> NoComplexity ]

NoNode == [ name |-> <<>>, args |-> <<>>, is_async |-> FALSE, body |-> <<>>,
            wrapped |-> FALSE ]

\* the file-level pipeline at rest
FileIdle ==
    /\ pc = "idle"
    /\ repo = [p \in Paths |-> Absent]
    /\ mode = NoMode
    /\ analyses = <<>>
    /\ idx = 0
    /\ generated_files = <<>>
    /\ dir_created = FALSE
    /\ out_files = {}
    /\ writers = {}
    /\ last_gen = NoGen
    /\ result = PyNone
    /\ targets = NoTargets

InitSynth ==
    /\ pcS = "source"
    /\ fnode \in FuncNodes
    /\ module_name \in ModuleNames
    /\ fn = NoFn
    /\ strategies = <<>>
    /\ tests = <<>>
    /\ FileIdle
    /\ AnalyzerIdle
    /\ HeuristicIdle
    /\ CycleIdle

\* ModuleAnalyzer._analyze_function on the function definition
AnalyzeFunction ==
    /\ pcS = "source"
    /\ fn' = analyze_function(fnode)
    /\ pcS' = "analyzed"
    /\ UNCHANGED <<fnode, module_name, strategies, tests>>
    /\ UNCHANGED <<varsF, varsO, varsA, varsH, varsC>>

\* a call of resolve_mock_strategies(fn, module_name)
ResolveMockStrategies ==
    /\ pcS = "analyzed"
    /\ strategies' = resolve_mock_strategies(fn, module_name)
    /\ pcS' = "resolved"
    /\ UNCHANGED <<fnode, module_name, fn, tests>>
    /\ UNCHANGED <<varsF, varsO, varsA, varsH, varsC>>

\* a call of _generate_function_tests(fn, module_name): it resolves the
\* strategies itself and builds the cases from them
GenerateFunctionTests ==
    /\ pcS = "analyzed"
    /\ strategies' = resolve_mock_strategies(fn, module_name)
    /\ tests' = generate_function_tests(fn, module_name).tests
    /\ pcS' = "generated"
    /\ UNCHANGED <<fnode, module_name, fn>>
    /\ UNCHANGED <<varsF, varsO, varsA, varsH, varsC>>

NextSynth ==
    \/ AnalyzeFunction
    \/ ResolveMockStrategies
    \/ GenerateFunctionTests

SpecSynth == InitSynth /\ [][NextSynth]_vars

\* the function-level pipeline at rest
SynthIdle ==
    /\ pcS = "idle"
    /\ fnode = NoNode
    /\ module_name = <<>>
    /\ fn = NoFn
    /\ strategies = <<>>
    /\ tests = <<>>

Init == SynthIdle /\ AnalyzerIdle /\ HeuristicIdle /\ CycleIdle /\ InitFiles

Next ==
    \/ \E m \in (1..MaxFilesArg) \cup { DefaultMaxFiles } : AnalyzeDirectory(m)
    \/ \E rp \in RepoPaths, t \in Paths \cup { NoPath } : RunStart(rp, t)
    \/ \E io \in IOOutcomes : GenerateSingle(io)
    \/ \E io \in IOOutcomes : LoopStep(io)
    \/ Finish
    \/ \E m \in (-1..MaxTargetsArg) \cup { DefaultMaxTargets } : SelectTestTargets(m)

Spec == Init /\ [][Next]_vars

(***************************************************************************)
(* The analyzer on its own: one function definition is analyzed twice, as  *)
(* the only definition of a module and among sibling definitions.          *)
(***************************************************************************)
Name(id) == Node("Name", id, <<>>)
Attribute(value, attr) == Node("Attribute", attr, << value >>)
Subscript(value) == Node("Subscript", <<>>, << value >>)
Lambda == Node("Lambda", <<>>, <<>>)
Call(func) == Node("Call", <<>>, << func >>)
Expr(value) == Node("Expr", <<>>, << value >>)
Raise(exc) == Node("Raise", <<>>, << exc >>)

\* the callees of the modelled call expressions
Callees ==
    { Name(<<"o", "p", "e", "n">>),
      Name(<<"P", "a", "t", "h">>),
      Attribute(Attribute(Name(<<"o", "s">>), <<"p", "a", "t", "h">>), <<"e", "x", "i", "s", "t", "s">>),
      Attribute(Name(<<"s", "u", "b", "p", "r", "o", "c", "e", "s", "s">>), <<"r", "u", "n">>),
      Attribute(Name(<<"r", "e", "q", "u", "e", "s", "t", "s">>), <<"g", "e", "t">>),
      Subscript(Name(<<"h", "a", "n", "d", "l", "e", "r", "s">>)),
      Attribute(Call(Name(<<"P", "a", "t", "h">>)), <<"r", "e", "a", "d", "_", "t", "e", "x", "t">>),
      Lambda }

SimpleStmts ==
    { Expr(Call(c)) : c \in Callees }
        \cup { Raise(Call(Name(<<"V", "a", "l", "u", "e", "E", "r", "r", "o", "r">>))),
               Node("Return", <<>>, << Call(Name(<<"h", "e", "l", "p", "e", "r">>)) >> ) }

CompoundStmts ==
    { Node(t, <<>>, << Expr(Call(Name(<<"o", "p", "e", "n">>))) >>) : t \in { "If", "For", "While", "Try" } }

Stmts == SimpleStmts \cup CompoundStmts

\* the function definitions under observation: "def unit(): <body>"
UnitDefs == { Node("FunctionDef", <<"u", "n", "i", "t">>, body) : body \in SeqsUpTo(Stmts, MaxStmts) }

\* an unrelated definition: it runs a subprocess in a loop and raises
SiblingDef ==
    Node("FunctionDef", <<"o", "t", "h", "e", "r">>,
         << Node("For", <<>>, << Expr(Call(Attribute(Name(<<"s", "u", "b", "p", "r", "o", "c", "e", "s", "s">>), <<"r", "u", "n">>))) >>),
            Raise(Call(Name(<<"R", "u", "n", "t", "i", "m", "e", "E", "r", "r", "o", "r">>))) >>)

\* the modules holding the unit among sibling definitions: after a sibling
\* function, and as a method followed by a sibling method
ModulesAround(unit) ==
    { Node("Module", <<>>, << SiblingDef, unit >>),
      Node("Module", <<>>, << Node("ClassDef", <<"B", "o", "x">>, << unit, SiblingDef >>) >>) }

Analyzed(tree) ==
    LET visitor == analyze_tree(tree)
    IN [ done |-> TRUE, functions |-> visitor.functions, classes |-> visitor.classes ]

InitAnalyze ==
    /\ SynthIdle
    /\ FileIdle
    /\ HeuristicIdle
    /\ CycleIdle
    /\ \E unit \in UnitDefs :
          /\ mod_a = Node("Module", <<>>, << unit >>)
          /\ mod_b \in ModulesAround(unit)
    /\ out_a = NotAnalyzed
    /\ out_b = NotAnalyzed

\* analyze_file on the module that holds the unit alone
AnalyzeAlone ==
    /\ ~ out_a.done
    /\ out_a' = Analyzed(mod_a)
    /\ UNCHANGED <<mod_a, mod_b, out_b>>
    /\ UNCHANGED <<varsS, varsF, varsO, varsH, varsC>>

\* analyze_file on the module that holds the unit among its siblings
AnalyzeAmong ==
    /\ ~ out_b.done
    /\ out_b' = Analyzed(mod_b)
    /\ UNCHANGED <<mod_a, mod_b, out_a>>
    /\ UNCHANGED <<varsS, varsF, varsO, varsH, varsC>>

NextAnalyze ==
    \/ AnalyzeAlone
    \/ AnalyzeAmong

SpecAnalyze == InitAnalyze /\ [][NextAnalyze]_vars

(***************************************************************************)
(* Target selection on its own: a repository of a few files, scanned in    *)
(* the order the directory walk meets them, then select_test_targets.      *)
(***************************************************************************)
\* files of one repository in the selection runs
MaxRecords == 2

PingNode ==
    [ name |-> <<"p", "i", "n", "g">>, args |-> <<>>, is_async |-> FALSE, body |-> <<>>, wrapped |-> FALSE ]

SelPaths ==
    { FilePath(<<>>, <<"u", "t", "i", "l", "s">>, <<".", "p", "y">>),
      FilePath(<<>>, <<"s", "e", "t", "u", "p">>, <<".", "p", "y">>),
      FilePath(<<"p", "k", "g", "_", "b">>, <<"c", "o", "r", "e">>, <<".", "p", "y">>),
      FilePath(<<"m", "i", "g", "r", "a", "t", "i", "o", "n", "s">>, <<"e", "n", "v">>, <<".", "p", "y">>),
      FilePath(<<"t", "e", "s", "t", "s">>, <<"t", "e", "s", "t", "_", "c", "o", "r", "e">>, <<".", "p", "y">>),
      FilePath(<<"t", "e", "s", "t", "s">>, <<"h", "e", "l", "p", "e", "r", "s">>, <<".", "p", "y">>) }

SelContents ==
    { Malformed, ZeroBytes,
      Source(<< FetchNode >>, <<>>),
      Source(<< FetchNode, PingNode >>, <<>>),
      Source(<<>>, << RunnerNode >>) }

\* ten files, three of them under an excluded directory and holding the
\* most code; os.walk meets them in the order of TenOrder
TenOrder ==
    << FilePath(<<"p", "k", "g">>, <<"m", "0">>, <<".", "p", "y">>), FilePath(<<"m", "i", "g", "r", "a", "t", "i", "o", "n", "s">>, <<"v", "0">>, <<".", "p", "y">>),
       FilePath(<<"p", "k", "g">>, <<"m", "1">>, <<".", "p", "y">>), FilePath(<<"p", "k", "g">>, <<"m", "2">>, <<".", "p", "y">>),
       FilePath(<<"m", "i", "g", "r", "a", "t", "i", "o", "n", "s">>, <<"v", "1">>, <<".", "p", "y">>), FilePath(<<"p", "k", "g">>, <<"m", "3">>, <<".", "p", "y">>),
       FilePath(<<"p", "k", "g">>, <<"m", "4">>, <<".", "p", "y">>), FilePath(<<"p", "k", "g">>, <<"m", "5">>, <<".", "p", "y">>),
       FilePath(<<"m", "i", "g", "r", "a", "t", "i", "o", "n", "s">>, <<"v", "2">>, <<".", "p", "y">>), FilePath(<<"p", "k", "g">>, <<"m", "6">>, <<".", "p", "y">>) >>

TenPaths == { TenOrder[i] : i \in 1..Len(TenOrder) }

TenRepositories ==
    { [ p \in TenPaths |->
          IF p.dir = <<"m", "i", "g", "r", "a", "t", "i", "o", "n", "s">> THEN Source(<< FetchNode >>, << RunnerNode >>)
          ELSE IF p.stem \in { <<"m", "0">>, <<"m", "2">>, <<"m", "4">> } THEN Source(<< FetchNode >>, <<>>)
          ELSE c ] :
        c \in { Source(<< FetchNode, PingNode >>, <<>>), Source(<<>>, << RunnerNode >>) } }

SelRepositories ==
    UNION { [ps -> SelContents] :
                ps \in { q \in SUBSET SelPaths : Cardinality(q) <= MaxRecords } }

\* the orders in which a directory walk may meet the files of a repository
ListingOrders(files) ==
    IF DOMAIN files = TenPaths THEN { TenOrder }
    ELSE { o \in [1..Cardinality(DOMAIN files) -> DOMAIN files] :
              \A i, j \in DOMAIN o : i # j => o[i] # o[j] }

InitSelect ==
    /\ SynthIdle
    /\ AnalyzerIdle
    /\ HeuristicIdle
    /\ CycleIdle
    /\ pc = "idle"
    /\ repo \in SelRepositories \cup TenRepositories
    /\ mode = NoMode
    /\ analyses = <<>>
    /\ idx = 0
    /\ generated_files = <<>>
    /\ dir_created = FALSE
    /\ out_files = {}
    /\ writers = {}
    /\ last_gen = NoGen
    /\ result = PyNone
    /\ targets = NoTargets

\* analyze_directory(repo) where the walk meets the files in the given order
ScanListed(order) ==
    /\ pc = "idle"
    /\ mode' = [ NoMode EXCEPT !.op = "scan", !.max_files = DefaultMaxFiles ]
    /\ analyses' = [ i \in 1..Len(order) |-> analyze_file(repo, order[i]) ]
    /\ pc' = "scanned"
    /\ UNCHANGED <<repo, idx, generated_files, dir_created, out_files,
                   writers, last_gen, result>>
    /\ UNCHANGED <<varsS, varsO, varsA, varsH, varsC>>

NextSelect ==
    \/ \E order \in ListingOrders(repo) : ScanListed(order)
    \/ \E m \in (-1..MaxTargetsArg) \cup { DefaultMaxTargets } : SelectTestTargets(m)

SpecSelect == InitSelect /\ [][NextSelect]_vars

(***************************************************************************)
(* Properties of the resolver and of the function templates (SpecSynth).   *)
(***************************************************************************)
Bit(b) == IF b THEN 1 ELSE 0

\* the resolver has run on fn
Resolved == pcS \in { "resolved", "generated" }

\* number of resolved strategies bound to one of the given mock parameters
NumWith(arg_names) ==
    Cardinality({ i \in 1..Len(strategies) : strategies[i].arg_name \in arg_names })

\* some recorded call contains "os.path.exists" or "Path"
OsCallSeen ==
    \E i \in 1..Len(fn.calls) :
        Contains(fn.calls[i], <<"o", "s", ".", "p", "a", "t", "h", ".", "e", "x", "i", "s", "t", "s">>) \/ Contains(fn.calls[i], <<"P", "a", "t", "h">>)

\* some recorded call contains "requests"
RequestsSeen == \E i \in 1..Len(fn.calls) : Contains(fn.calls[i], <<"r", "e", "q", "u", "e", "s", "t", "s">>)

\* C2 as stated: the number of resolved strategies equals the number of set
\* indicators among file I/O, subprocess, network and OS access.
C2_OnePerSetIndicator ==
    Resolved =>
        Len(strategies) =
            Bit(fn.complexity_indicators.uses_file_io)
            + Bit(fn.complexity_indicators.uses_subprocess)
            + Bit(fn.complexity_indicators.uses_http)
            + Bit(fn.complexity_indicators.uses_os)

\* C2 amended: exactly one strategy for each of file I/O, subprocess and
\* network that is set and none for one that is not; for OS access one
\* strategy exactly when the indicator is set and a call name contains
\* "os.path.exists" or "Path"; the list holds nothing else.
C2_OnePerMockedIndicator ==
    Resolved =>
        /\ NumWith({"mock_file"}) = Bit(fn.complexity_indicators.uses_file_io)
        /\ NumWith({"mock_run"}) = Bit(fn.complexity_indicators.uses_subprocess)
        /\ NumWith({"mock_client", "mock_req"}) = Bit(fn.complexity_indicators.uses_http)
        /\ NumWith({"mock_exists"}) =
               Bit(fn.complexity_indicators.uses_os /\ OsCallSeen)
        /\ Len(strategies) =
               NumWith({"mock_file", "mock_run", "mock_client", "mock_req", "mock_exists"})

\* a function that touches the OS without any call the resolver mocks, next
\* to a file-I/O call that it does mock
C2_Witness ==
    /\ pcS = "resolved"
    /\ fn.complexity_indicators.uses_os
    /\ ~ OsCallSeen
    /\ fn.complexity_indicators.uses_file_io
    /\ Len(strategies) = 1

\* position of a strategy's category in file I/O, subprocess, network, OS
CategoryRank(s) ==
    CASE s.arg_name = "mock_file" -> 1
      [] s.arg_name = "mock_run" -> 2
      [] s.arg_name \in {"mock_client", "mock_req"} -> 3
      [] s.arg_name = "mock_exists" -> 4
      [] OTHER -> 0

\* C3: the resolved list follows the category order file I/O, subprocess,
\* network, OS access with no category twice, and a set network indicator
\* yields exactly one network strategy: the requests one when a call name
\* contains "requests", the httpx one otherwise.
C3_FixedCategoryOrder ==
    Resolved =>
        /\ \A i \in 1..Len(strategies) : CategoryRank(strategies[i]) \in 1..4
        /\ \A i, j \in 1..Len(strategies) :
               i < j => CategoryRank(strategies[i]) < CategoryRank(strategies[j])
        /\ fn.complexity_indicators.uses_http =>
               /\ NumWith({"mock_client", "mock_req"}) = 1
               /\ \A i \in 1..Len(strategies) :
                      CategoryRank(strategies[i]) = 3 =>
                          strategies[i].target =
                              IF RequestsSeen THEN module_name \o <<".", "r", "e", "q", "u", "e", "s", "t", "s">>
                              ELSE module_name \o <<".", "h", "t", "t", "p", "x", ".", "A", "s", "y", "n", "c", "C", "l", "i", "e", "n", "t">>

\* three categories resolved at once, the network one among them
C3_Witness ==
    /\ pcS = "resolved"
    /\ Len(strategies) = 3
    /\ fn.complexity_indicators.uses_http
    /\ CategoryRank(strategies[1]) = 1

\* the synthesized cases contain one of the given kind
HasCase(kind) == \E i \in 1..Len(tests) : tests[i].kind = kind

\* C4 as stated: a set network indicator always yields a connection-failure
\* case, so a network function with a parameter gets at least the four
\* cases success, degenerate input, boundary and connection failure.
C4_ConnectionFailureCase ==
    (pcS = "generated" /\ fn.complexity_indicators.uses_http) =>
        /\ HasCase("http_error")
        /\ fn.args # <<>> =>
               /\ Len(tests) >= 4
               /\ HasCase("success")
               /\ HasCase("empty_input")
               /\ HasCase("various_inputs")

\* C8: the error-injection case exists exactly when exception handling was
\* detected and a strategy was resolved, and it patches the first strategy;
\* the timeout and non-zero-exit cases exist exactly when the subprocess
\* indicator is set; the missing-file case exactly when file I/O is set.
C8_ConditionalCases ==
    pcS = "generated" =>
        /\ HasCase("error_handling") <=>
               (fn.complexity_indicators.has_try_except /\ strategies # <<>>)
        /\ \A i \in 1..Len(tests) :
               tests[i].kind = "error_handling" =>
                   /\ tests[i].decorators = << strategies[1].decorator >>
                   /\ tests[i].params = << strategies[1].arg_name >>
        /\ HasCase("subprocess_timeout") <=> fn.complexity_indicators.uses_subprocess
        /\ HasCase("subprocess_failure") <=> fn.complexity_indicators.uses_subprocess
        /\ HasCase("file_not_found") <=> fn.complexity_indicators.uses_file_io

\* a file-I/O function without exception handling: missing-file case, no
\* error-injection case
C8_Witness ==
    /\ pcS = "generated"
    /\ fn.complexity_indicators.uses_file_io
    /\ ~ fn.complexity_indicators.has_try_except
    /\ strategies # <<>>
    /\ HasCase("file_not_found")
    /\ ~ HasCase("error_handling")

\* position of a case kind in the order the cases are synthesized in
KindRank(kind) ==
    CASE kind = "success" -> 1
      [] kind = "empty_input" -> 2
      [] kind = "various_inputs" -> 3
      [] kind = "error_handling" -> 4
      [] kind = "subprocess_timeout" -> 5
      [] kind = "subprocess_failure" -> 6
      [] kind = "file_not_found" -> 7
      [] kind = "http_error" -> 8
      [] OTHER -> 0

\* C9: the cases of a function come in the order success, degenerate input,
\* boundary, error injection, timeout, non-zero exit, missing file,
\* connection failure; success is always first; the degenerate and the
\* boundary case exist exactly when there is a parameter; the degenerate
\* call differs from the success call in the first argument only, which is
\* the empty string; the boundary case lists the happy value, the
\* degenerate value and a whitespace-only value of the first parameter.
C9_CaseOrderAndInputs ==
    pcS = "generated" =>
        /\ tests # <<>>
        /\ tests[1].kind = "success"
        /\ \A i \in 1..Len(tests) : KindRank(tests[i].kind) \in 1..8
        /\ \A i, j \in 1..Len(tests) :
               i < j => KindRank(tests[i].kind) < KindRank(tests[j].kind)
        /\ HasCase("empty_input") <=> fn.args # <<>>
        /\ HasCase("various_inputs") <=> fn.args # <<>>
        /\ \A i \in 1..Len(tests) :
               tests[i].kind = "empty_input" =>
                   /\ Len(tests[i].call.args) = Len(fn.args)
                   /\ tests[i].call.args[1] =
                          [ name |-> fn.args[1].name, value |-> "\"\"" ]
                   /\ \A k \in 2..Len(fn.args) :
                          tests[i].call.args[k] = tests[1].call.args[k]
        /\ \A i \in 1..Len(tests) :
               tests[i].kind = "various_inputs" =>
                   /\ tests[i].parametrize.name = fn.args[1].name \o <<"_", "v", "a", "l">>
                   /\ Len(tests[i].parametrize.values) = 3
                   /\ tests[i].parametrize.values[1] = tests[1].call.args[1].value
                   /\ tests[i].parametrize.values[2] \in {"0", "False", "{}", "\"\""}
                   /\ tests[i].parametrize.values[2] = infer_empty_value(fn.args[1].name)
                   /\ tests[i].parametrize.values[3] = "\"   \""
                   /\ Len(tests[i].call.args) = 1
                   /\ tests[i].call.args[1].name = fn.args[1].name

\* a two-parameter function for which seven cases are synthesized
C9_Witness ==
    /\ pcS = "generated"
    /\ Len(fn.args) = 2
    /\ Len(tests) = 7
    /\ HasCase("empty_input")
    /\ HasCase("file_not_found")

(***************************************************************************)
(* Properties of the scanner, the file writer and the entry point (Spec).  *)
(***************************************************************************)
\* C1 as stated: two distinct source files never share a write target, so
\* no test module is written at a path that belongs to another source file.
C1_UniqueWriteTargets ==
    \A w1, w2 \in writers : w1.source # w2.source => w1.name # w2.name

\* the analysis is one the full-repository loop hands to generate_test_file
\* and that has something to test
Testable(analysis) ==
    /\ analysis.error = PyNone
    /\ ~ StartsWith(analysis.module, <<"t", "e", "s", "t", "_">>)
    /\ analysis.module # <<"_", "_", "i", "n", "i", "t", "_", "_">>
    /\ (analysis.functions # <<>> \/ analysis.classes # <<>>)

\* C5 as stated: in full-repository mode a failed write is confined to its
\* file: the call does not abort, and every other analyzed file with
\* functions or classes has its test module listed in the result.
C5_WriteFailureConfined ==
    (mode.op = "run" /\ mode.target_file = NoPath /\ pc \in {"done", "raised"}) =>
        /\ pc = "done"
        /\ \A i \in 1..Len(analyses) :
               ( /\ Testable(analyses[i])
                 /\ ~ (last_gen.ret.kind = "raised" /\ last_gen.analysis = analyses[i]) )
               => InList(test_filepath(test_dir, analyses[i].module), generated_files)

\* the files a scan of the repository is to analyze: Python files outside
\* the version-control directory
Eligible ==
    { p \in Paths : repo[p].kind # "absent" /\ p.ext = <<".", "p", "y">> /\ p.dir # <<".", "g", "i", "t">> }

\* the file cannot be read or parsed
Bad(p) == repo[p].kind \in { "unreadable", "syntax_error" }

\* the file an analysis record is about
SourceOf(analysis) ==
    IF analysis.error # PyNone
    THEN CHOOSE p \in Paths : PathStr(p) = analysis.module
    ELSE analysis.filepath

Min(a, b) == IF a <= b THEN a ELSE b

\* C6: a file that cannot be read or parsed yields a record with the error
\* set and no functions, classes or imports, and a directory scan still
\* returns one record for each eligible file, up to max_files, the bad
\* file's record among them.
C6_BadFileDoesNotAbortScan ==
    mode.op = "scan" =>
        /\ \A i \in 1..Len(analyses) :
               /\ SourceOf(analyses[i]) \in Eligible
               /\ Bad(SourceOf(analyses[i])) <=> analyses[i].error # PyNone
               /\ analyses[i].error # PyNone =>
                      /\ analyses[i].functions = <<>>
                      /\ analyses[i].classes = <<>>
                      /\ analyses[i].imports = <<>>
        /\ \A i, j \in 1..Len(analyses) :
               i # j => SourceOf(analyses[i]) # SourceOf(analyses[j])
        /\ Len(analyses) = Min(mode.max_files, Cardinality(Eligible))

\* a scan whose result holds the record of a bad file followed by the
\* record of a good one
C6_Witness ==
    /\ pc = "scanned"
    /\ \E i, j \in 1..Len(analyses) :
           /\ i < j
           /\ analyses[i].error # PyNone
           /\ analyses[j].error = PyNone
           /\ analyses[j].functions # <<>>

\* C7: generate_test_file returns None, leaving the output directory and
\* its files as they were, exactly when the analysis has neither functions
\* nor classes; a path it returns is the target of the analysis, written
\* with the rendered module in the created directory.
C7_NoneIffNothingToTest ==
    last_gen.called =>
        /\ last_gen.ret.kind = "none" <=>
               (last_gen.analysis.functions = <<>> /\ last_gen.analysis.classes = <<>>)
        /\ last_gen.ret.kind = "none" =>
               /\ dir_created = last_gen.dir_before
               /\ out_files = last_gen.files_before
        /\ last_gen.ret.kind = "path" =>
               /\ dir_created
               /\ last_gen.ret.path = test_filepath(test_dir, last_gen.analysis.module)
               /\ \E f \in out_files :
                      /\ f.name = last_gen.ret.path.name
                      /\ f.content.module = last_gen.analysis.module

\* the analysis of a zero-byte file (no error, nothing to test) answered by
\* None after an earlier file was written
C7_Witness ==
    /\ last_gen.called
    /\ last_gen.ret.kind = "none"
    /\ last_gen.analysis.error = PyNone
    /\ dir_created
    /\ out_files # {}

\* C10 as stated: every rendered module is valid Python whatever the number
\* of analyzed symbols, its guarded import binds every analyzed function and
\* class name to a placeholder, and it holds at least one case for every
\* analyzed function and class.
C10_RenderedModuleWellFormed ==
    \A f \in out_files :
        /\ valid_fallback(f.content.fallback)
        /\ \A i \in 1..Len(f.content.import_names) :
               /\ \E k \in 1..Len(f.content.fallback) :
                      f.content.fallback[k] = Tok("name", f.content.import_names[i])
               /\ \E k \in 1..Len(f.content.body_parts) :
                      /\ f.content.body_parts[k].name = f.content.import_names[i]
                      /\ f.content.body_parts[k].tests # <<>>

(***************************************************************************)
(* C11: the import header of a rendered module names a unittest.mock       *)
(* helper (patch, MagicMock, mock_open, AsyncMock) only if at least one    *)
(* case rendered in that module references the helper.                     *)
(***************************************************************************)
ModuleHelpers(content) ==
    UNION { UNION { case_helpers(content.body_parts[i].tests[j]) :
                        j \in 1..Len(content.body_parts[i].tests) } :
                i \in 1..Len(content.body_parts) }

C11_ImportsOnlyReferenced ==
    \A f \in out_files :
        \A k \in 1..Len(f.content.mock_imports) :
            f.content.mock_imports[k] \in ModuleHelpers(f.content)

(***************************************************************************)
(* Properties of the target selection (SpecSelect, and Spec for C14).      *)
(***************************************************************************)
\* the record's module name is on the exclusion list or has a test prefix
ExcludedName(r) ==
    \/ Lower(r.module) \in EXCLUDE_PATTERNS
    \/ StartsWith(Lower(r.module), <<"t", "e", "s", "t", "_">>)
    \/ StartsWith(Lower(r.module), <<"t", "e", "s", "t", "s", "_">>)

\* some component of the path is the directory name d
HasComponent(p, d) ==
    Contains(<<"/">> \o PathStr(p) \o <<"/">>, <<"/">> \o d \o <<"/">>)

UnderExcludedDir(p) == \E d \in EXCLUDE_DIRS : HasComponent(p, d)

Selectable(r) ==
    /\ r.error = PyNone
    /\ r.functions # <<>> \/ r.classes # <<>>
    /\ ~ ExcludedName(r)
    /\ ~ UnderExcludedDir(r.filepath)

\* C12: select_test_targets returns at most max_targets records (for
\* max_targets >= 0) and never a record with a parse error, without
\* functions and classes, with an excluded module name or test prefix, or
\* under an excluded directory; of n files with k under an excluded
\* directory it returns at most n - k (of 10 with 3 excluded, at most 7).
C12_SelectionBoundedAndFiltered ==
    targets.called =>
        /\ targets.max_targets >= 0 => Len(targets.selected) <= targets.max_targets
        /\ \A i \in 1..Len(targets.selected) : Selectable(targets.selected[i])
        /\ Len(targets.selected) <=
              Cardinality(DOMAIN repo)
                  - Cardinality({ p \in DOMAIN repo : UnderExcludedDir(p) })

C12_Witness ==
    /\ targets.called
    /\ targets.max_targets = DefaultMaxTargets
    /\ Cardinality(DOMAIN repo) = 10
    /\ Cardinality({ p \in DOMAIN repo : UnderExcludedDir(p) }) = 3
    /\ \A i \in 1..Len(analyses) :
          UnderExcludedDir(analyses[i].filepath) =>
              \A j \in 1..Len(analyses) : score(analyses[i]) >= score(analyses[j])
    /\ Len(targets.selected) = 7

\* the score the claim states, in half points
ClaimedScore(r) ==
    4 * Len(r.functions) + 6 * Len(r.classes)
        + 2 * Cardinality({ x \in (1..Len(r.functions)) \X DOMAIN NoComplexity :
                              r.functions[x[1]].complexity_indicators[x[2]] })
        + SumSeq([ c \in 1..Len(r.classes) |->
                    Cardinality({ x \in (1..Len(r.classes[c].methods)) \X DOMAIN NoComplexity :
                                    r.classes[c].methods[x[1]].complexity_indicators[x[2]] }) ])

\* position of a record in the input list
InputPos(r) == CHOOSE i \in 1..Len(analyses) : analyses[i] = r

\* record a is ranked ahead of record b
RankedAhead(a, b) ==
    \/ ClaimedScore(a) > ClaimedScore(b)
    \/ ClaimedScore(a) = ClaimedScore(b) /\ InputPos(a) < InputPos(b)

IsTestPath(p) ==
    \/ StartsWith(p.stem, <<"t", "e", "s", "t", "_">>)
    \/ HasComponent(p, <<"t", "e", "s", "t", "s">>)

\* C14: test files and files under a test directory never become generation
\* candidates: analyze_directory does not yield them and select_test_targets
\* does not return them.
C14_TestFilesNeverCandidates ==
    pc \in { "scanned", "selected" } =>
        /\ \A i \in 1..Len(analyses) :
              analyses[i].error = PyNone => ~ IsTestPath(analyses[i].filepath)
        /\ \A i \in 1..Len(targets.selected) : ~ IsTestPath(targets.selected[i].filepath)

(***************************************************************************)
(* Claims about the analyzer on syntax trees.                              *)
(***************************************************************************)
\* the records an analysis holds for the definitions named "unit", as
\* functions of the module or as methods of its classes
UnitRecords(out) ==
    { out.functions[i] : i \in { j \in 1..Len(out.functions) : out.functions[j].name = <<"u", "n", "i", "t">> } }
        \cup UNION { { out.classes[c].methods[i] :
                          i \in { j \in 1..Len(out.classes[c].methods) :
                                     out.classes[c].methods[j].name = <<"u", "n", "i", "t">> } } :
                      c \in 1..Len(out.classes) }

\* C15: the metadata of a function depends on its own syntax subtree only:
\* analyzed after an unrelated sibling function, or as a method next to an
\* unrelated method, the definition gets the record (call list, raise list,
\* return flag, indicators) it gets when it is alone in its module.
C15_MetadataOfOwnSubtreeOnly ==
    (out_a.done /\ out_b.done) =>
        /\ Len(out_a.functions) = 1
        /\ UnitRecords(out_b) = { out_a.functions[1] }

\* a unit that opens a file, analyzed alone and next to the sibling, whose
\* subprocess call and loop leave the unit's indicators alone
C15_Witness ==
    /\ out_a.done
    /\ out_b.done
    /\ Len(out_b.functions) = 2
    /\ out_b.functions[1].complexity_indicators.uses_subprocess
    /\ out_b.functions[2].name = <<"u", "n", "i", "t">>
    /\ out_b.functions[2].complexity_indicators.uses_file_io
    /\ ~ out_b.functions[2].complexity_indicators.uses_subprocess
    /\ ~ out_b.functions[2].complexity_indicators.has_loops

\* some recorded call name of the record contains one of the keys
CallContaining(rec, keys) ==
    \E i \in 1..Len(rec.calls) : AnyIn(keys, Lower(rec.calls[i]))

\* some recorded call is an os.* or *.path.* call, or a call to Path
CallsOsPrimitive(rec) ==
    \/ CallContaining(rec, << <<"o", "s", ".">>, <<"p", "a", "t", "h", ".">> >>)
    \/ \E i \in 1..Len(rec.calls) : rec.calls[i] = <<"P", "a", "t", "h">>

\* a node of one of the types occurs in the definition
Occurs(unit, types) ==
    \E i \in 1..Len(ast_walk(unit)) : ast_walk(unit)[i].type \in types

\* C16: each side-effect indicator of a function is true exactly when the
\* function holds a matching call (file I/O: a call name containing open,
\* read_text, write_text or read_bytes; subprocess: a name containing
\* subprocess; network: httpx, requests, aiohttp or urllib; OS access: an
\* os.* or *.path.* call or a call to Path), and each control-flow indicator
\* exactly when a try, a conditional or a loop occurs in the function.
C16_IndicatorsMatchCalls ==
    out_a.done =>
        LET rec == out_a.functions[1]
            cx == rec.complexity_indicators
            unit == mod_a.children[1]
        IN /\ cx.uses_file_io <=> CallContaining(rec, << <<"o", "p", "e", "n">>, <<"r", "e", "a", "d", "_", "t", "e", "x", "t">>, <<"w", "r", "i", "t", "e", "_", "t", "e", "x", "t">>, <<"r", "e", "a", "d", "_", "b", "y", "t", "e", "s">> >>)
           /\ cx.uses_subprocess <=> CallContaining(rec, << <<"s", "u", "b", "p", "r", "o", "c", "e", "s", "s">> >>)
           /\ cx.uses_http <=> CallContaining(rec, << <<"h", "t", "t", "p", "x">>, <<"r", "e", "q", "u", "e", "s", "t", "s">>, <<"a", "i", "o", "h", "t", "t", "p">>, <<"u", "r", "l", "l", "i", "b">> >>)
           /\ cx.uses_os <=> CallsOsPrimitive(rec)
           /\ cx.has_try_except <=> Occurs(unit, { "Try", "TryStar" })
           /\ cx.has_conditionals <=> Occurs(unit, { "If" })
           /\ cx.has_loops <=> Occurs(unit, { "For", "While" })

\* C17: the raises list of a function's record holds no duplicate name: each
\* raised error name appears at most once, however many raise statements
\* name it and however deeply they are nested.
C17_RaisesDistinct ==
    out_a.done =>
        LET raises == out_a.functions[1].raises
        IN \A i, j \in 1..Len(raises) : raises[i] = raises[j] => i = j

RECURSIVE dotted(_)
\* the dotted string an expression spells: a.b.c for an attribute chain on
\* the name a, and the attribute names alone (b.c) for a chain on anything
\* else
dotted(expr) ==
    IF expr.type = "Name" THEN expr.id
    ELSE IF expr.type = "Attribute"
    THEN LET value == dotted(expr.children[1])
         IN IF value = <<>> THEN expr.id ELSE value \o <<".">> \o expr.id
    ELSE <<>>

\* the callees of the call expressions of a definition
CalleesOf(unit) ==
    { ast_walk(unit)[i].children[1] :
        i \in { j \in 1..Len(ast_walk(unit)) : ast_walk(unit)[j].type = "Call" } }

\* the callee is a plain name or an attribute chain rooted in a name
Rooted(callee) == chain_root(callee).type = "Name"

\* the side-effect indicators a set of call names sets
SetBy(names) ==
    [ k \in { "uses_file_io", "uses_subprocess", "uses_http", "uses_os" } |->
        \E name \in names : classify_call(NoComplexity, name)[k] ]

\* the record holds exactly the names given, and the indicators they set
RecordsExactly(rec, names) ==
    /\ { rec.calls[i] : i \in 1..Len(rec.calls) } = names
    /\ \A k \in DOMAIN SetBy(names) : rec.complexity_indicators[k] = SetBy(names)[k]

\* C18 as stated: a call whose callee is not a dotted name rooted in a plain
\* identifier adds no entry to the call list and sets no indicator, and a
\* callee that is a name or a name-rooted attribute chain is recorded as the
\* full dotted string.
C18_UnrootedCalleeSkipped ==
    out_a.done =>
        RecordsExactly(out_a.functions[1],
                       { dotted(c) : c \in { k \in CalleesOf(mod_a.children[1]) : Rooted(k) } })

\* C18, amended: a call whose callee is neither a name nor an attribute
\* access (a subscript result, a call result, a lambda) adds no entry and
\* sets no indicator; a name or a name-rooted attribute chain is recorded as
\* the full dotted string; an attribute chain rooted in anything else is
\* recorded as the dotted string of its attribute names alone and sets the
\* indicators that string matches.
C18_CalleesRecordedByAttributeNames ==
    out_a.done =>
        RecordsExactly(out_a.functions[1],
                       { dotted(c) : c \in { k \in CalleesOf(mod_a.children[1]) :
                                                 k.type \in { "Name", "Attribute" } } })

\* a unit calling Path("x").read_text() and handlers[0](): "read_text" is
\* recorded and sets the file indicator, the subscript callee leaves no trace
C18_Witness ==
    /\ out_a.done
    /\ mod_a.children[1].children =
          << Expr(Call(Attribute(Call(Name(<<"P", "a", "t", "h">>)), <<"r", "e", "a", "d", "_", "t", "e", "x", "t">>))),
             Expr(Call(Subscript(Name(<<"h", "a", "n", "d", "l", "e", "r", "s">>)))) >>
    /\ InList(<<"r", "e", "a", "d", "_", "t", "e", "x", "t">>, out_a.functions[1].calls)
    /\ out_a.functions[1].complexity_indicators.uses_file_io
    /\ \A i \in 1..Len(out_a.functions[1].calls) :
          out_a.functions[1].calls[i] \in { <<"P", "a", "t", "h">>, <<"r", "e", "a", "d", "_", "t", "e", "x", "t">> }

(***************************************************************************)
(* The argument heuristics on their own: one parameter, for which the      *)
(* happy-path literal and the degenerate literal are inferred.             *)
(***************************************************************************)
\* parameter names given to the heuristics
HeuristicNames ==
    { <<"d", "a", "t", "a", "_", "p", "a", "t", "h">>, <<"f", "i", "l", "e", "_", "u", "r", "l">>, <<"f", "i", "l", "e", "_", "c", "o", "u", "n", "t">>, <<"u", "s", "e", "r", "n", "a", "m", "e">>, <<"m", "a", "x", "_", "d", "e", "l", "a", "y">>, <<"v", "e", "r", "b", "o", "s", "e">>,
      <<"e", "n", "a", "b", "l", "e", "d">>, <<"s", "e", "t", "t", "i", "n", "g", "s">>, <<"c", "o", "n", "f", "i", "g">>, <<"B", "r", "a", "n", "c", "h">>, <<"b", "r", "a", "n", "c", "h", "_", "n", "a", "m", "e">>, <<"t", "o", "k", "e", "n", "_", "t", "i", "m", "e", "o", "u", "t">>,
      <<"o", "u", "t", "p", "u", "t", "_", "k", "e", "y">>, <<"a", "p", "i", "_", "k", "e", "y">>, <<"c", "m", "d">>, <<"i", "t", "e", "m">>, <<>> }

\* default literals of _find_default: no default, the trivial None and '',
\* a number
HeuristicDefaults == { PyNone, "None", "''", "30" }

InitInfer ==
    /\ CycleIdle
    /\ SynthIdle
    /\ FileIdle
    /\ AnalyzerIdle
    /\ arg_in \in [ name : HeuristicNames, default : HeuristicDefaults ]
    /\ arg_out = NotInferred

\* _infer_test_value(arg["name"], arg.get("default"))
InferTestValue ==
    /\ "test" \notin arg_out.called
    /\ arg_out' = [ arg_out EXCEPT !.test = infer_test_value(arg_in.name, arg_in.default),
                                   !.called = @ \cup { "test" } ]
    /\ UNCHANGED <<arg_in, varsS, varsF, varsO, varsA, varsC>>

\* _infer_empty_value(arg["name"])
InferEmptyValue ==
    /\ "empty" \notin arg_out.called
    /\ arg_out' = [ arg_out EXCEPT !.empty = infer_empty_value(arg_in.name),
                                   !.called = @ \cup { "empty" } ]
    /\ UNCHANGED <<arg_in, varsS, varsF, varsO, varsA, varsC>>

NextInfer ==
    \/ InferTestValue
    \/ InferEmptyValue

SpecInfer == InitInfer /\ [][NextInfer]_vars

(***************************************************************************)
(* Claims about the argument heuristics.                                   *)
(***************************************************************************)
\* a keyword group: the name holds one of the keys, or is the exact name
Group(keys, exact, literal) == [ keys |-> keys, exact |-> exact, literal |-> literal ]

PathGroup == Group(<<<<"p", "a", "t", "h">>, <<"f", "i", "l", "e">>, <<"d", "i", "r">>, <<"f", "o", "l", "d", "e", "r">>>>, <<>>, "\"/tmp/test_file.txt\"")
UrlGroup == Group(<<<<"u", "r", "l">>, <<"u", "r", "i">>, <<"e", "n", "d", "p", "o", "i", "n", "t">>>>, <<>>, "\"https://example.com/test\"")
NameGroup == Group(<<<<"n", "a", "m", "e">>, <<"t", "i", "t", "l", "e">>, <<"l", "a", "b", "e", "l">>>>, <<>>, "\"test_value\"")
CountGroup == Group(<<<<"c", "o", "u", "n", "t">>, <<"n", "u", "m">>, <<"s", "i", "z", "e">>, <<"l", "i", "m", "i", "t">>, <<"m", "a", "x">>, <<"m", "i", "n">>>>, <<>>, "10")
BooleanGroup == Group(<<<<"f", "l", "a", "g">>, <<"e", "n", "a", "b", "l", "e", "d">>, <<"a", "c", "t", "i", "v", "e">>, <<"v", "e", "r", "b", "o", "s", "e">>>>, <<>>, "True")
ConfigGroup == Group(<<<<"d", "a", "t", "a">>, <<"c", "o", "n", "f", "i", "g">>, <<"o", "p", "t", "i", "o", "n", "s">>, <<"s", "e", "t", "t", "i", "n", "g", "s">>>>, <<>>, "{\"key\": \"value\"}")
BranchGroup == Group(<<>>, <<"b", "r", "a", "n", "c", "h">>, "\"main\"")
CredentialGroup == Group(<<<<"t", "o", "k", "e", "n">>, <<"k", "e", "y">>, <<"s", "e", "c", "r", "e", "t">>>>, <<>>, "\"test_token_123\"")
TimeoutGroup == Group(<<<<"t", "i", "m", "e", "o", "u", "t">>, <<"d", "e", "l", "a", "y">>>>, <<>>, "30")
OutputGroup == Group(<<<<"o", "u", "t", "p", "u", "t">>, <<"r", "e", "s", "u", "l", "t">>, <<"t", "e", "x", "t">>, <<"c", "o", "n", "t", "e", "n", "t">>, <<"b", "o", "d", "y">>>>, <<>>, "\"test output content\"")
CommandGroup == Group(<<<<"c", "o", "m", "m", "a", "n", "d">>, <<"c", "m", "d">>>>, <<>>, "\"echo hello\"")

\* the order of the groups as the claim gives it
ClaimedGroups ==
    << PathGroup, UrlGroup, NameGroup, CountGroup, BooleanGroup, ConfigGroup,
       CredentialGroup, TimeoutGroup, OutputGroup, CommandGroup >>

\* the order of the groups with the credentials last and the exact name
\* "branch" after the structured configuration
AmendedGroups ==
    << PathGroup, UrlGroup, NameGroup, CountGroup, BooleanGroup, ConfigGroup,
       BranchGroup, TimeoutGroup, OutputGroup, CommandGroup, CredentialGroup >>

Matches(group, name) ==
    \/ AnyIn(group.keys, Lower(name))
    \/ (group.exact # <<>> /\ Lower(name) = group.exact)

\* the literal of the first group of the list that the name matches, the
\* generic string literal when it matches none
FirstMatch(groups, name) ==
    LET hits == { i \in 1..Len(groups) : Matches(groups[i], name) }
    IN IF hits = {} THEN "\"test_input\""
       ELSE groups[CHOOSE i \in hits : \A j \in hits : i <= j].literal

\* the parameter has no default, or a trivial one
NoUsableDefault == arg_in.default \in { PyNone, "None", "''", "\"\"" }

\* C19 as stated: without a non-trivial default, the name gets the literal of
\* the first matching group in the order path/file/dir, url/endpoint,
\* name/title/label, count/size/limit, boolean-like, structured config,
\* credentials, timeout/delay, output/content, command, and the generic
\* string literal when no group matches.
C19_FirstGroupInClaimedOrder ==
    ("test" \in arg_out.called /\ NoUsableDefault) =>
        arg_out.test = FirstMatch(ClaimedGroups, arg_in.name)

\* C19, amended: the order is path/file/dir, url/endpoint, name/title/label,
\* count/size/limit, boolean-like, structured config, the exact name
\* "branch", timeout/delay, output/content, command, credentials; the first
\* matching group gives the literal, an unmatched name the generic string.
C19_FirstGroupCredentialsLast ==
    ("test" \in arg_out.called /\ NoUsableDefault) =>
        arg_out.test = FirstMatch(AmendedGroups, arg_in.name)

\* "token_timeout" matches the credentials and the timeout group and gets
\* the timeout literal
C19_Witness ==
    /\ arg_in.name = <<"t", "o", "k", "e", "n", "_", "t", "i", "m", "e", "o", "u", "t">>
    /\ NoUsableDefault
    /\ Matches(CredentialGroup, arg_in.name)
    /\ Matches(TimeoutGroup, arg_in.name)
    /\ arg_out.test = "30"

\* the degenerate literal that goes with a happy-path literal: 0 for a
\* number, False for a boolean, the empty mapping for a mapping, the empty
\* string otherwise
DegenerateOf(happy) ==
    IF happy \in { "10", "30" } THEN "0"
    ELSE IF happy = "True" THEN "False"
    ELSE IF happy = "{\"key\": \"value\"}" THEN "{}"
    ELSE "\"\""

\* C20: _infer_empty_value classifies a name as _infer_test_value does: for a
\* name without default, the degenerate value is 0 when the happy value is a
\* number, False when it is a boolean, the empty mapping when it is a
\* mapping, and the empty string otherwise.
C20_EmptyValueSameGroups ==
    (arg_out.called = { "test", "empty" } /\ arg_in.default = PyNone) =>
        arg_out.empty = DegenerateOf(arg_out.test)

\* C21: for every parameter name (recognized or not, any letter case, the
\* empty name included) and every default the analyzer produces,
\* _infer_test_value and _infer_empty_value return a non-empty literal and
\* never the null value.
C21_LiteralsNeverEmpty ==
    /\ "test" \in arg_out.called => arg_out.test \notin { PyNone, "" }
    /\ "empty" \in arg_out.called => arg_out.empty \notin { PyNone, "" }

\* the empty name without default: the generic literal and the literal of
\* the empty string
C21_Witness ==
    /\ arg_in = [ name |-> <<>>, default |-> PyNone ]
    /\ arg_out.called = { "test", "empty" }
    /\ arg_out.test = "\"test_input\""
    /\ arg_out.empty = "\"\""

(***************************************************************************)
(* The test-file writer on one source file: run_unit_test_generation on a  *)
(* repository that holds the single file utils.py, whose content ranges    *)
(* over public and private functions, sync and async ones, and classes     *)
(* with and without public methods.                                        *)
(***************************************************************************)
\* def pull(url): httpx.get(...)
PullNode ==
    [ name |-> <<"p", "u", "l", "l">>, args |-> << [name |-> <<"u", "r", "l">>, default |-> PyNone] >>,
      is_async |-> FALSE, body |-> << <<"h", "t", "t", "p", "x", ".", "g", "e", "t">> >>, wrapped |-> FALSE ]

\* async def poll(): the body calls nothing
PollNode ==
    [ name |-> <<"p", "o", "l", "l">>, args |-> <<>>,
      is_async |-> TRUE, body |-> <<>>, wrapped |-> FALSE ]

\* def _load(path): open(...)
LoadNode ==
    [ name |-> <<"_", "l", "o", "a", "d">>, args |-> << [name |-> <<"p", "a", "t", "h">>, default |-> PyNone] >>,
      is_async |-> FALSE, body |-> << <<"o", "p", "e", "n">> >>, wrapped |-> FALSE ]

\* class Vault: __init__ and a private method only
VaultNode ==
    [ name |-> <<"V", "a", "u", "l", "t">>, methods |-> << InitNode, HelperNode >> ]

\* def sync(path): open(...); subprocess.run(...)
SyncNode ==
    [ name |-> <<"s", "y", "n", "c">>, args |-> << [name |-> <<"p", "a", "t", "h">>, default |-> PyNone] >>,
      is_async |-> FALSE, body |-> << <<"o", "p", "e", "n">>, <<"s", "u", "b", "p", "r", "o", "c", "e", "s", "s", ".", "r", "u", "n">> >>, wrapped |-> FALSE ]

\* class Mirror: __init__ and the method sync
MirrorNode ==
    [ name |-> <<"M", "i", "r", "r", "o", "r">>, methods |-> << InitNode, SyncNode >> ]

RenderFunctions ==
    { <<>>, << FetchNode >>, << PullNode >>, << PollNode >>, << LoadNode >>, << SyncNode >>,
      << FetchNode, LoadNode >>, << LoadNode, PullNode >> }

RenderClasses == { <<>>, << RunnerNode >>, << VaultNode >>, << MirrorNode >> }

\* contents of the single file
RenderContents ==
    { Source(f, c) : f \in RenderFunctions, c \in RenderClasses }
        \cup { Malformed }

\* the single file of the repository
RenderPath == WalkOrder[2]

InitRender ==
    /\ pc = "idle"
    /\ \E c \in RenderContents :
          repo = [ p \in Paths |-> IF p = RenderPath THEN c ELSE Absent ]
    /\ mode = NoMode
    /\ analyses = <<>>
    /\ idx = 0
    /\ generated_files = <<>>
    /\ dir_created = FALSE
    /\ out_files = {}
    /\ writers = {}
    /\ last_gen = NoGen
    /\ result = PyNone
    /\ targets = NoTargets
    /\ SynthIdle
    /\ AnalyzerIdle
    /\ HeuristicIdle
    /\ CycleIdle

NextRender ==
    \/ \E rp \in RepoPaths, t \in { RenderPath, WalkOrder[4], NoPath } : RunStart(rp, t)
    \/ \E io \in IOOutcomes : GenerateSingle(io)
    \/ \E io \in IOOutcomes : LoopStep(io)
    \/ Finish

SpecRender == InitRender /\ [][NextRender]_vars

(***************************************************************************)
(* Claims about the rendered test modules.                                 *)
(***************************************************************************)
\* the cases of the given kind a test class holds for the given name
CasesOf(part, kind, name) ==
    { j \in 1..Len(part.tests) : part.tests[j].kind = kind /\ part.tests[j].of = name }

\* the test class rendered for the k-th class of the last analysis
ClassPart(f, k) == f.content.body_parts[Len(last_gen.analysis.functions) + k]

\* C22: for every class, _generate_class_tests emits exactly one constructor
\* fixture and one instantiation case, exactly two cases (success and
\* is-callable) for each method whose name does not start with an
\* underscore, and no case for the constructor or an underscore-prefixed
\* method: a class with only a constructor and private methods yields the
\* fixture and the instantiation case only.
C22_ClassCases ==
    \A f \in out_files :
        \A k \in 1..Len(last_gen.analysis.classes) :
            LET cls == last_gen.analysis.classes[k]
                part == ClassPart(f, k)
                public == { m \in 1..Len(cls.methods) : cls.methods[m].name[1] # "_" }
            IN /\ part.kind = "class"
               /\ part.name = cls.name
               /\ Cardinality(CasesOf(part, "fixture", cls.name)) = 1
               /\ Cardinality(CasesOf(part, "instantiation", cls.name)) = 1
               /\ \A m \in public :
                     /\ Cardinality(CasesOf(part, "success", cls.methods[m].name)) = 1
                     /\ Cardinality(CasesOf(part, "is_callable", cls.methods[m].name)) = 1
               /\ Len(part.tests) = 2 + 2 * Cardinality(public)

\* the test class rendered for Vault (a constructor and a private method)
\* holds the fixture and the instantiation case and nothing else
C22_Witness ==
    \E f \in out_files :
        /\ last_gen.analysis.classes # <<>>
        /\ last_gen.analysis.classes[1].name = <<"V", "a", "u", "l", "t">>
        /\ Len(last_gen.analysis.classes[1].methods) = 2
        /\ Len(ClassPart(f, 1).tests) = 2

(***************************************************************************)
(* Claims about the statuses of run_unit_test_generation.                  *)
(***************************************************************************)
\* the statuses of the failed preconditions
PreconditionStatuses ==
    { "Error: Repository path is required", "Error: Path not found",
      "Error: File not found", "No testable code found" }

\* the run meets nothing to test: in single-file mode the file holds no
\* function and no class, in full-repository mode no analysis is testable
NothingTestable ==
    IF mode.target_file # NoPath
    THEN \A i \in 1..Len(analyses) : nothing_to_test_funcs(analyses[i]) /\ analyses[i].classes = <<>>
    ELSE \A i \in 1..Len(analyses) : ~ Testable(analyses[i])

\* C23: run_unit_test_generation does not raise and writes no file for a
\* failed precondition: a blank repository path, a repository path not on
\* disk, a target file that does not exist and a run that finds nothing
\* testable each end in a status string, the four are pairwise distinct;
\* and in full-repository mode a file that failed to parse is skipped while
\* the files after it are processed.
C23_PreconditionStatuses ==
    /\ Cardinality(PreconditionStatuses) = 4
    /\ (mode.op = "run" /\ pc \in { "done", "raised" }) =>
          /\ mode.repo_path = "  " =>
                (pc = "done" /\ result = "Error: Repository path is required")
          /\ mode.repo_path = "/no/such/dir" =>
                (pc = "done" /\ result = "Error: Path not found")
          /\ (mode.repo_path = "/repo" /\ mode.target_file # NoPath
                 /\ repo[mode.target_file].kind = "absent") =>
                (pc = "done" /\ result = "Error: File not found")
          /\ (mode.repo_path = "/repo"
                 /\ (mode.target_file # NoPath => repo[mode.target_file].kind = "source")
                 /\ NothingTestable) =>
                (pc = "done" /\ result = "No testable code found")
          /\ result \in PreconditionStatuses =>
                (pc = "done" /\ out_files = {} /\ generated_files = <<>>)
    /\ (mode.op = "run" /\ pc = "done" /\ mode.repo_path = "/repo"
           /\ mode.target_file = NoPath) =>
          \A i \in 1..Len(analyses) :
              Testable(analyses[i]) =>
                  \E f \in out_files : f.name = test_filename(analyses[i].module)

\* a full-repository run over a file that does not parse and a testable
\* file after it: the run is done and the test file of the second exists
C23_Witness ==
    /\ mode.op = "run"
    /\ pc = "done"
    /\ mode.target_file = NoPath
    /\ \E i, j \in 1..Len(analyses) :
          /\ i < j
          /\ analyses[i].error # PyNone
          /\ Testable(analyses[j])
          /\ \E f \in out_files : f.name = test_filename(analyses[j].module)

(***************************************************************************)
(* The orchestrators: agents/orchestrator_agent.py and the tool of the     *)
(* same name in qa_council_server.py, with the agents they await.          *)
(***************************************************************************)
NL == << "\n" >>
Digits == <<"0", "1", "2", "3", "4", "5", "6", "7", "8", "9">>
SafeChars == UpperAlpha \o LowerAlpha \o Digits \o <<"_", "-">>

\* the status glyphs of qa_council_server.py, one element each
CrossMark == << "[cross]" >>
CheckMark == << "[check]" >>
WarnMark == << "[warn]" >>

\* s.endswith(suf)
EndsWith(s, suf) ==
    /\ Len(suf) <= Len(s)
    /\ SubSeq(s, Len(s) - Len(suf) + 1, Len(s)) = suf

IsSpace(c) == c \in { " ", "\n", "\t" }

\* s.strip()
Strip(s) ==
    IF \A i \in 1..Len(s) : IsSpace(s[i]) THEN <<>>
    ELSE LET a == CHOOSE i \in 1..Len(s) : ~ IsSpace(s[i]) /\ \A j \in 1..(i - 1) : IsSpace(s[j])
             b == CHOOSE i \in 1..Len(s) : ~ IsSpace(s[i]) /\ \A j \in (i + 1)..Len(s) : IsSpace(s[j])
         IN SubSeq(s, a, b)

\* s.rstrip(c) for one character c
RStrip(s, c) ==
    IF \A i \in 1..Len(s) : s[i] = c THEN <<>>
    ELSE LET b == CHOOSE i \in 1..Len(s) : s[i] # c /\ \A j \in (i + 1)..Len(s) : s[j] = c
         IN SubSeq(s, 1, b)

\* s.find(sub) + 1, 0 when sub does not occur
FindStr(s, sub) ==
    IF Contains(s, sub)
    THEN CHOOSE i \in 1..(Len(s) - Len(sub) + 1) :
            /\ SubSeq(s, i, i + Len(sub) - 1) = sub
            /\ \A j \in 1..(i - 1) : SubSeq(s, j, j + Len(sub) - 1) # sub
    ELSE 0

RECURSIVE SplitStr(_, _)
\* s.split(sep) for a separator of any length
SplitStr(s, sep) ==
    LET i == FindStr(s, sep) IN
    IF i = 0 THEN << s >>
    ELSE << SubSeq(s, 1, i - 1) >> \o SplitStr(SubSeq(s, i + Len(sep), Len(s)), sep)

\* s.replace(old, new)
ReplaceStr(s, old, new) ==
    LET parts == SplitStr(s, old)
    IN Flatten([ i \in 1..Len(parts) |-> IF i = 1 THEN parts[i] ELSE new \o parts[i] ])

\* s.count(sub)
CountStr(s, sub) == Len(SplitStr(s, sub)) - 1

\* str(n) for a small natural number
StrOfNat(n) == << Digits[n + 1] >>

\* path_utils.sanitize_repo_name
sanitize_repo_name(repo_url) ==
    LET parts == Split(RStrip(repo_url, "/"), "/")
        last == parts[Len(parts)]
        name == IF EndsWith(last, <<".", "g", "i", "t">>) THEN SubSeq(last, 1, Len(last) - 4) ELSE last
    IN [ i \in 1..Len(name) |-> IF InList(name[i], SafeChars) THEN name[i] ELSE "_" ]

\* config.WORKSPACE_DIR: the default and a directory set by the environment
WorkspaceDirs == { <<"/", "a", "p", "p", "/", "r", "e", "p", "o", "s">>, <<"/", "s", "r", "v", "/", "f", "a", "i", "l", "e", "d", "-", "b", "u", "i", "l", "d", "s">> }

\* stderr of a git command that ended with a non-zero code
GitStderr == <<"f", "a", "t", "a", "l", ":", " ", "r", "e", "p", "o", "s", "i", "t", "o", "r", "y", " ", "n", "o", "t", " ", "f", "o", "u", "n", "d">> \o NL

\* git_utils.clone_or_update_repo: (success, repo_path_or_error) for what
\* the git command did
clone_or_update_repo(workspace, repo_url, git) ==
    CASE git = "ok" ->
            [ success |-> TRUE, result |-> workspace \o <<"/">> \o sanitize_repo_name(repo_url) ]
      [] git = "nonzero" ->
            [ success |-> FALSE, result |-> <<"G", "i", "t", " ", "c", "l", "o", "n", "e", " ", "f", "a", "i", "l", "e", "d", ":", " ">> \o GitStderr ]
      [] OTHER ->
            [ success |-> FALSE, result |-> <<"G", "i", "t", " ", "o", "p", "e", "r", "a", "t", "i", "o", "n", " ", "t", "i", "m", "e", "d", " ", "o", "u", "t">> ]

\* clone_repository of agents/repository_agent.py ("agent") and of
\* qa_council_server.py ("server")
clone_repository(impl, workspace, repo_url, git) ==
    LET done == clone_or_update_repo(workspace, repo_url, git)
        mark(glyph) == IF impl = "server" THEN glyph \o <<" ">> ELSE <<>>
    IN IF Strip(repo_url) = <<>> THEN mark(CrossMark) \o <<"E", "r", "r", "o", "r", ":", " ", "R", "e", "p", "o", "s", "i", "t", "o", "r", "y", " ", "U", "R", "L", " ", "i", "s", " ", "r", "e", "q", "u", "i", "r", "e", "d">>
       ELSE IF done.success THEN mark(CheckMark) \o <<"R", "e", "p", "o", "s", "i", "t", "o", "r", "y", " ", "r", "e", "a", "d", "y", " ", "a", "t", ":", " ">> \o done.result
       ELSE mark(CrossMark) \o <<"R", "e", "p", "o", "s", "i", "t", "o", "r", "y", " ", "c", "l", "o", "n", "e", " ", "f", "a", "i", "l", "e", "d", ":", " ">> \o done.result

\* a test on the clone result that never sees a failure
clone_failed_never(impl, clone_result) == FALSE

\* the orchestrator's test on the clone result
clone_failed(impl, clone_result) ==
    IF impl = "server" THEN Contains(clone_result, CrossMark)
    ELSE Contains(Lower(clone_result), <<"f", "a", "i", "l", "e", "d">>) \/ Contains(Lower(clone_result), <<"e", "r", "r", "o", "r">>)

\* the repository path the orchestrator takes from the clone result
repo_path_of(impl, clone_result, repo_url) ==
    IF impl = "server"
    THEN IF Contains(clone_result, <<":", " ">>) THEN SplitStr(clone_result, <<":", " ">>)[2]
         ELSE <<"/", "a", "p", "p", "/", "r", "e", "p", "o", "s", "/">> \o sanitize_repo_name(repo_url)
    ELSE Strip(ReplaceStr(clone_result, <<"R", "e", "p", "o", "s", "i", "t", "o", "r", "y", " ", "r", "e", "a", "d", "y", " ", "a", "t", ":", " ">>, <<>>))

\* what run_pytest can come back with: pytest ran and all tests passed, ran
\* with a failing test, collected nothing, or did not run
PytestRuns ==
    { [ ok |-> TRUE, exit_code |-> 0,
        stdout |-> <<"t", "e", "s", "t", "_", "a", "p", "p", ".", "p", "y", ":", ":", "t", "e", "s", "t", "_", "a", " ", "P", "A", "S", "S", "E", "D">> \o NL \o <<"=", "=", " ", "1", " ", "p", "a", "s", "s", "e", "d", " ", "i", "n", " ", "0", ".", "1", "s", " ", "=", "=">> ],
      [ ok |-> TRUE, exit_code |-> 1,
        stdout |-> <<"F", "A", "I", "L", "E", "D", " ", "t", "e", "s", "t", "_", "a", "p", "p", ".", "p", "y", ":", ":", "t", "e", "s", "t", "_", "a">> \o NL \o <<"=", "=", " ", "1", " ", "f", "a", "i", "l", "e", "d", ",", " ", "1", " ", "p", "a", "s", "s", "e", "d", " ", "i", "n", " ", "0", ".", "1", "s", " ", "=", "=">> ],
      [ ok |-> TRUE, exit_code |-> 5,
        stdout |-> <<"=", "=", " ", "n", "o", " ", "t", "e", "s", "t", "s", " ", "r", "a", "n", " ", "i", "n", " ", "0", ".", "1", "s", " ", "=", "=">> ],
      [ ok |-> FALSE, exit_code |-> 1,
        stdout |-> <<"T", "e", "s", "t", " ", "e", "x", "e", "c", "u", "t", "i", "o", "n", " ", "t", "i", "m", "e", "d", " ", "o", "u", "t", " ", "(", "5", " ", "m", "i", "n", " ", "l", "i", "m", "i", "t", ")">> ] }

\* the number of failing tests of a pytest run
failed_tests(run) == IF run.ok THEN CountStr(run.stdout, <<" ", "f", "a", "i", "l", "e", "d">>) ELSE 0

\* run_test_execution / execute_tests: the string returned for a run
execution_report(impl, repo_path, path_exists, run) ==
    LET mark(glyph) == IF impl = "server" THEN glyph \o <<" ">> ELSE <<>>
        status == IF impl = "server"
                  THEN (IF run.exit_code = 0 THEN CheckMark ELSE WarnMark)
                  ELSE (IF run.exit_code = 0 THEN <<"P", "A", "S", "S">> ELSE <<"W", "A", "R", "N">>)
    IN IF Strip(repo_path) = <<>> THEN mark(CrossMark) \o <<"E", "r", "r", "o", "r", ":", " ", "R", "e", "p", "o", "s", "i", "t", "o", "r", "y", " ", "p", "a", "t", "h", " ", "i", "s", " ", "r", "e", "q", "u", "i", "r", "e", "d">>
       ELSE IF ~ path_exists THEN mark(CrossMark) \o <<"E", "r", "r", "o", "r", ":", " ", "P", "a", "t", "h", " ", "n", "o", "t", " ", "f", "o", "u", "n", "d", ":", " ">> \o repo_path
       ELSE IF ~ run.ok THEN mark(CrossMark) \o <<"T", "e", "s", "t", " ", "e", "x", "e", "c", "u", "t", "i", "o", "n", " ", "e", "r", "r", "o", "r", ":", " ">> \o run.stdout
       ELSE status \o <<" ", "T", "e", "s", "t", " ", "E", "x", "e", "c", "u", "t", "i", "o", "n", " ", "C", "o", "m", "p", "l", "e", "t", "e">> \o NL \o NL
               \o <<"R", "e", "s", "u", "l", "t", "s", ":">> \o NL
               \o <<"-", " ", "P", "a", "s", "s", "e", "d", ":", " ">> \o StrOfNat(CountStr(run.stdout, <<" ", "p", "a", "s", "s", "e", "d">>)) \o NL
               \o <<"-", " ", "F", "a", "i", "l", "e", "d", ":", " ">> \o StrOfNat(CountStr(run.stdout, <<" ", "f", "a", "i", "l", "e", "d">>)) \o NL
               \o <<"-", " ", "C", "o", "v", "e", "r", "a", "g", "e", ":", " ", "N", "/", "A", "%">> \o NL \o NL
               \o <<"R", "e", "p", "o", "r", "t", ":", " ", "/", "a", "p", "p", "/", "t", "e", "s", "t", "_", "r", "e", "s", "u", "l", "t", "s", "/", "r", "e", "p", "o", "r", "t", "_", "2", "0", "2", "4", "0", "1", "0", "1", "_", "0", "0", "0", "0", "0", "0", ".", "h", "t", "m", "l">> \o NL
               \o <<"C", "o", "v", "e", "r", "a", "g", "e", ":", " ", "/", "a", "p", "p", "/", "c", "o", "v", "e", "r", "a", "g", "e", "/", "c", "o", "v", "e", "r", "a", "g", "e", "_", "2", "0", "2", "4", "0", "1", "0", "1", "_", "0", "0", "0", "0", "0", "0", ".", "x", "m", "l">> \o NL \o NL
               \o run.stdout \o NL

\* the orchestrator's test on the execution result: the repair phase runs
repair_needed(impl, exec_result) ==
    IF impl = "server"
    THEN Contains(Lower(exec_result), <<"f", "a", "i", "l", "e", "d">>) \/ Contains(exec_result, CrossMark)
    ELSE Contains(Lower(exec_result), <<"f", "a", "i", "l", "e", "d">>) \/ Contains(Lower(exec_result), <<"e", "r", "r", "o", "r">>)

\* repository URLs handed to orchestrate_full_qa_cycle
RepoUrls ==
    { <<>>, <<" ", " ">>,
      <<"h", "t", "t", "p", "s", ":", "/", "/", "g", "i", "t", "h", "u", "b", ".", "c", "o", "m", "/", "o", "/", "a", "p", "p">>,
      <<"h", "t", "t", "p", "s", ":", "/", "/", "g", "i", "t", "h", "u", "b", ".", "c", "o", "m", "/", "o", "/", "e", "r", "r", "o", "r", "-", "p", "a", "g", "e", "s", ".", "g", "i", "t">>,
      <<"h", "t", "t", "p", "s", ":", "/", "/", "g", "i", "t", "h", "u", "b", ".", "c", "o", "m", "/", "o", "/", "F", "a", "i", "l", "e", "d", ".", "J", "o", "b", "s", "/">> }

\* base_url arguments
BaseUrls == { <<>>, <<" ">>, <<"h", "t", "t", "p", ":", "/", "/", "l", "o", "c", "a", "l", "h", "o", "s", "t", ":", "8", "0", "0", "0">> }

\* the files analysed in the cloned repository
CycleFiles ==
    [ p \in { FilePath(<<>>, <<"u", "t", "i", "l", "s">>, <<".", "p", "y">>), FilePath(<<>>, <<"s", "e", "t", "u", "p">>, <<".", "p", "y">>),
              FilePath(<<"p", "k", "g", "_", "b">>, <<"c", "o", "r", "e">>, <<".", "p", "y">>) } |->
        IF p.stem = <<"c", "o", "r", "e">> THEN Source(<<>>, << RunnerNode >>) ELSE Source(<< FetchNode >>, <<>>) ]

\* what run_analysis can return as raw analyses
CycleAnalyses ==
    { <<>>,
      << analyze_file(CycleFiles, FilePath(<<>>, <<"s", "e", "t", "u", "p">>, <<".", "p", "y">>)) >>,
      << analyze_file(CycleFiles, FilePath(<<>>, <<"u", "t", "i", "l", "s">>, <<".", "p", "y">>)),
         analyze_file(CycleFiles, FilePath(<<"p", "k", "g", "_", "b">>, <<"c", "o", "r", "e">>, <<".", "p", "y">>)) >> }

\* test_targets of qa_council_server.orchestrate_full_qa_cycle
ServerTargets == << <<"b", "a", "c", "k", "e", "n", "d", "/", "m", "a", "i", "n", ".", "p", "y">>, <<"d", "a", "t", "a", "b", "a", "s", "e", "/", "d", "a", "t", "a", "b", "a", "s", "e", "_", "s", "e", "t", "u", "p", ".", "p", "y">>, <<"p", "r", "e", "s", "t", "a", "r", "t", ".", "p", "y">> >>

\* one awaited agent call
AgentCall(agent, arg) == [ agent |-> agent, arg |-> arg ]

\* one entry of the result list: the phase it belongs to and what it is
Entry(phase, kind) == [ phase |-> phase, kind |-> kind ]

StartCycle(impl, workspace, repo_url, base_url) ==
    /\ cycle.pc = "idle"
    /\ cycle' = IF Strip(repo_url) = <<>>
                THEN [ cycle EXCEPT !.impl = impl, !.repo_url = repo_url, !.base_url = base_url,
                                    !.workspace = workspace,
                                    !.results = << Entry("arguments", "error") >>,
                                    !.pc = "done" ]
                ELSE [ cycle EXCEPT !.impl = impl, !.repo_url = repo_url, !.base_url = base_url,
                                    !.workspace = workspace,
                                    !.results = << Entry("repository", "heading") >>,
                                    !.pc = "clone" ]
    /\ UNCHANGED <<varsS, varsF, varsO, varsA, varsH>>

\* await clone_repository(...) and the test on its result
CloneStep(git) ==
    /\ cycle.pc = "clone"
    /\ LET clone_result == clone_repository(cycle.impl, cycle.workspace, cycle.repo_url, git)
           called == Append(cycle.calls, AgentCall("clone_repository", cycle.repo_url))
           cloned == IF git = "ok"
                     THEN clone_or_update_repo(cycle.workspace, cycle.repo_url, git).result
                     ELSE PyNone
       IN cycle' =
            IF clone_failed(cycle.impl, clone_result)
            THEN [ cycle EXCEPT !.clone_result = clone_result, !.calls = called, !.cloned = cloned,
                                !.results = @ \o << Entry("repository", "output") >>
                                    \o (IF cycle.impl = "agent"
                                        THEN << Entry("repository", "aborted") >> ELSE <<>>),
                                !.pc = "done" ]
            ELSE [ cycle EXCEPT !.clone_result = clone_result, !.calls = called, !.cloned = cloned,
                                !.repo_path = repo_path_of(cycle.impl, clone_result, cycle.repo_url),
                                !.results = @ \o << Entry("repository", "output"),
                                                    Entry("analysis", "heading") >>,
                                !.pc = "analyze" ]
    /\ UNCHANGED <<varsS, varsF, varsO, varsA, varsH>>

\* await run_analysis(repo_path) / analyze_codebase(repo_path), then the
\* target selection
AnalyzeStep(raw_analyses) ==
    /\ cycle.pc = "analyze"
    /\ LET called == Append(cycle.calls,
                        AgentCall(IF cycle.impl = "agent" THEN "run_analysis" ELSE "analyze_codebase",
                                  cycle.repo_path))
           found == IF cycle.repo_path = cycle.cloned THEN raw_analyses ELSE <<>>
           selected == select_test_targets(found, DefaultMaxTargets)
       IN cycle' =
            IF cycle.impl = "server"
            THEN [ cycle EXCEPT !.calls = called, !.targets = ServerTargets,
                                !.results = @ \o << Entry("analysis", "output"),
                                                    Entry("generation", "heading") >>,
                                !.pc = "generate" ]
            ELSE IF found = <<>>
            THEN [ cycle EXCEPT !.calls = called,
                                !.results = @ \o << Entry("analysis", "output"),
                                                    Entry("analysis", "aborted") >>,
                                !.pc = "done" ]
            ELSE [ cycle EXCEPT !.calls = called,
                                !.files = Len(found),
                                !.targets = [ i \in 1..Len(selected) |-> PathStr(selected[i].filepath) ],
                                !.results = @ \o << Entry("analysis", "output"),
                                                    Entry("selection", "heading"),
                                                    Entry("selection", "output"),
                                                    Entry("generation", "heading") >>,
                                !.pc = "generate" ]
    /\ UNCHANGED <<varsS, varsF, varsO, varsA, varsH>>

\* the end-to-end generation is asked for
wants_e2e(impl, base_url) ==
    IF impl = "server" THEN Strip(base_url) # <<>> ELSE base_url # <<>>

\* await run_unit_test_generation(repo_path, target_file) for the next target
GenerateStep ==
    /\ cycle.pc = "generate"
    /\ cycle.done_targets < Len(cycle.targets)
    /\ LET target == cycle.targets[cycle.done_targets + 1]
           generator == IF cycle.impl = "agent" THEN "run_unit_test_generation" ELSE "generate_unit_tests"
       IN cycle' = [ cycle EXCEPT
                        !.done_targets = @ + 1,
                        !.calls = IF cycle.impl = "agent" /\ target = <<>> THEN @
                                  ELSE Append(@, AgentCall(generator, cycle.repo_path)),
                        !.results = IF cycle.impl = "agent" /\ target = <<>> THEN @
                                    ELSE Append(@, Entry("generation", "output")) ]
    /\ UNCHANGED <<varsS, varsF, varsO, varsA, varsH>>

\* await run_e2e_test_generation(...) after the last target
E2EStep ==
    /\ cycle.pc = "generate"
    /\ cycle.done_targets = Len(cycle.targets)
    /\ wants_e2e(cycle.impl, cycle.base_url)
    /\ cycle' = [ cycle EXCEPT
                    !.calls = Append(@, AgentCall(IF cycle.impl = "agent" THEN "run_e2e_test_generation"
                                                  ELSE "generate_e2e_tests", cycle.repo_path)),
                    !.results = @ \o << Entry("generation", "output"), Entry("execution", "heading") >>,
                    !.pc = "execute" ]
    /\ UNCHANGED <<varsS, varsF, varsO, varsA, varsH>>

\* no end-to-end generation: the loop over the targets falls through
SkipE2E ==
    /\ cycle.pc = "generate"
    /\ cycle.done_targets = Len(cycle.targets)
    /\ ~ wants_e2e(cycle.impl, cycle.base_url)
    /\ cycle' = [ cycle EXCEPT !.results = Append(@, Entry("execution", "heading")),
                               !.pc = "execute" ]
    /\ UNCHANGED <<varsS, varsF, varsO, varsA, varsH>>

\* await run_test_execution(...) / execute_tests(...) and the test on its
\* result
ExecuteStep(run) ==
    /\ cycle.pc = "execute"
    /\ LET exec_result == execution_report(cycle.impl, cycle.repo_path,
                                           cycle.repo_path = cycle.cloned, run)
       IN cycle' = [ cycle EXCEPT
                        !.exec_result = exec_result,
                        !.runs = Append(@, run),
                        !.calls = Append(@, AgentCall(IF cycle.impl = "agent" THEN "run_test_execution"
                                                      ELSE "execute_tests", cycle.repo_path)),
                        !.results = @ \o << Entry("execution", "output") >>
                                      \o (IF repair_needed(cycle.impl, exec_result)
                                          THEN << Entry("repair", "heading") >>
                                          ELSE << Entry("repair", "skipped"), Entry("cicd", "heading") >>),
                        !.pc = IF repair_needed(cycle.impl, exec_result) THEN "repair" ELSE "cicd" ]
    /\ UNCHANGED <<varsS, varsF, varsO, varsA, varsH>>

\* await run_repair_analysis(...) / repair_failing_tests(...)
RepairStep ==
    /\ cycle.pc = "repair"
    /\ cycle' = [ cycle EXCEPT
                    !.calls = Append(@, AgentCall(IF cycle.impl = "agent" THEN "run_repair_analysis"
                                                  ELSE "repair_failing_tests", cycle.repo_path)),
                    !.results = @ \o << Entry("repair", "output"), Entry("cicd", "heading") >>,
                    !.pc = "cicd" ]
    /\ UNCHANGED <<varsS, varsF, varsO, varsA, varsH>>

\* await run_workflow_generation(...) / generate_github_workflow(...), the
\* summary and the return
WorkflowStep ==
    /\ cycle.pc = "cicd"
    /\ cycle' = [ cycle EXCEPT
                    !.calls = Append(@, AgentCall(IF cycle.impl = "agent" THEN "run_workflow_generation"
                                                  ELSE "generate_github_workflow", cycle.repo_path)),
                    !.results = @ \o << Entry("cicd", "output"), Entry("summary", "complete") >>,
                    !.pc = "done" ]
    /\ UNCHANGED <<varsS, varsF, varsO, varsA, varsH>>

InitCycle ==
    /\ SynthIdle
    /\ FileIdle
    /\ AnalyzerIdle
    /\ HeuristicIdle
    /\ cycle = NoCycle

NextCycle ==
    \/ \E impl \in { "agent", "server" }, workspace \in WorkspaceDirs,
          repo_url \in RepoUrls, base_url \in BaseUrls :
            StartCycle(impl, workspace, repo_url, base_url)
    \/ \E git \in { "ok", "nonzero", "timeout" } : CloneStep(git)
    \/ \E raw_analyses \in CycleAnalyses : AnalyzeStep(raw_analyses)
    \/ GenerateStep
    \/ E2EStep
    \/ SkipE2E
    \/ \E run \in PytestRuns : ExecuteStep(run)
    \/ RepairStep
    \/ WorkflowStep

SpecCycle == InitCycle /\ [][NextCycle]_vars

\* every awaited agent returns: the cycle runs to its return
FairCycle == SpecCycle /\ WF_vars(NextCycle)

(***************************************************************************)
(* Claims about the orchestrators.                                         *)
(***************************************************************************)
\* a test execution that reported a failing test or did not run
run_failed(run) == ~ run.ok \/ failed_tests(run) > 0

\* the agents awaited so far, by name
Awaited(names) == { i \in 1..Len(cycle.calls) : cycle.calls[i].agent \in names }

Executors == { "run_test_execution", "execute_tests" }
Repairers == { "run_repair_analysis", "repair_failing_tests" }

\* C24: a returned cycle that reached the execution phase made at most
\* three execution attempts, every attempt before the last failed and was
\* followed by a repair, the last one passed or was the third, a pass after
\* a failure is reported as all tests passing and three failures as
\* exhausted attempts
C24_RetriesUntilPassOrExhausted ==
    (cycle.pc = "done" /\ cycle.runs # <<>>) =>
        LET n == Len(cycle.runs) IN
        /\ n <= 3
        /\ Cardinality(Awaited(Executors)) = n
        /\ \A i \in 1..(n - 1) : run_failed(cycle.runs[i])
        /\ Cardinality(Awaited(Repairers)) >= n - 1
        /\ run_failed(cycle.runs[n]) =>
              (n = 3 /\ InList(Entry("execution", "exhausted"), cycle.results))
        /\ (n > 1 /\ ~ run_failed(cycle.runs[n])) =>
              InList(Entry("execution", "passing"), cycle.results)

\* the repository agent came back with a clone failure
CloneFailureReported == cycle.clone_result # <<>> /\ cycle.cloned = PyNone

\* the cycle has returned with the repository phase alone
HaltedAfterRepository ==
    /\ cycle.pc = "done"
    /\ cycle.calls = << AgentCall("clone_repository", cycle.repo_url) >>
    /\ \A i \in 1..Len(cycle.results) : cycle.results[i].phase = "repository"

\* C25: once the repository agent has reported a clone failure the cycle has
\* returned, and from then on no other agent has been awaited and the
\* result holds entries of the repository phase only
C25_HaltsOnCloneFailure == [](CloneFailureReported => [] HaltedAfterRepository)

\* either orchestrator has returned after a clone that failed
C25_Witness ==
    /\ CloneFailureReported
    /\ cycle.pc = "done"
    /\ cycle.clone_result = clone_repository(cycle.impl, cycle.workspace, cycle.repo_url, "nonzero")

\* C26: past the repair phase, the repair agent was awaited exactly when the
\* execution reported a failing test or an execution error, and a phase that
\* did not run is reported as skipped
C26_RepairIffFailure ==
    (cycle.pc \in { "cicd", "done" } /\ cycle.runs # <<>>) =>
        /\ (Awaited(Repairers) # {}) <=> run_failed(cycle.runs[1])
        /\ ~ run_failed(cycle.runs[1]) => InList(Entry("repair", "skipped"), cycle.results)

\* C27: after a clone that succeeded the cycle is in, or past, the analysis
\* phase, and works on the cloned path
C27_SuccessfulCloneProceeds ==
    (cycle.clone_result # <<>> /\ cycle.cloned # PyNone) =>
        /\ cycle.repo_path = cycle.cloned
        /\ cycle.pc = "analyze" \/ Len(cycle.calls) >= 2
        /\ Len(cycle.calls) >= 2 => cycle.calls[2] \in
              { AgentCall("run_analysis", cycle.cloned), AgentCall("analyze_codebase", cycle.cloned) }

(***************************************************************************)
(* Claims about the rendered module: imports, bindings, mock parameters.   *)
(***************************************************************************)
\* C28: every unittest.mock helper (patch, MagicMock, mock_open, AsyncMock)
\* that a case of a written module references, in a decorator or in a setup
\* statement, is named by the import header of that module
C28_ReferencedHelpersImported ==
    \A f \in out_files :
        ModuleHelpers(f.content) \subseteq
            { f.content.mock_imports[k] : k \in 1..Len(f.content.mock_imports) }

\* C29: the written module holds no test class and no import binding for a
\* top-level function whose name starts with an underscore
C29_PublicFunctionsOnly ==
    \A f \in out_files :
        \A k \in 1..Len(last_gen.analysis.functions) :
            LET unit == last_gen.analysis.functions[k] IN
            StartsWith(unit.name, <<"_">>) =>
                /\ ~ InList(unit.name, f.content.import_names)
                /\ ~ \E p \in 1..Len(f.content.body_parts) :
                        /\ f.content.body_parts[p].kind = "function"
                        /\ f.content.body_parts[p].name = unit.name

\* the mock names a setup statement reads
SetupReads(line) ==
    CASE line = "mock_run.return_value = MagicMock(returncode=0, stdout=\"success\", stderr=\"\")" -> { "mock_run" }
      [] line = "mock_client_instance = AsyncMock()" -> {}
      [] line = "mock_response = MagicMock(status_code=200, text='ok')" -> {}
      [] line = "mock_response.json.return_value = {}" -> { "mock_response" }
      [] line = "mock_client_instance.post.return_value = mock_response" -> { "mock_client_instance", "mock_response" }
      [] line = "mock_client_instance.get.return_value = mock_response" -> { "mock_client_instance", "mock_response" }
      [] line = "mock_client.__aenter__.return_value = mock_client_instance" -> { "mock_client", "mock_client_instance" }
      [] line = "mock_req.get.return_value = MagicMock(status_code=200, text=\"ok\")" -> { "mock_req" }
      [] line = "mock_req.post.return_value = MagicMock(status_code=201, text=\"created\")" -> { "mock_req" }
      [] OTHER -> { "<unknown>" }

\* the local name a setup statement binds
SetupBinds(line) ==
    CASE line = "mock_client_instance = AsyncMock()" -> { "mock_client_instance" }
      [] line = "mock_response = MagicMock(status_code=200, text='ok')" -> { "mock_response" }
      [] OTHER -> {}

\* the success cases of the written module, each with the function or
\* method it was synthesized for
SuccessCases ==
    LET of_function(f, k) ==
            { [ case |-> f.content.body_parts[k].tests[j], unit |-> last_gen.analysis.functions[k],
                owner |-> "function" ] :
                j \in { i \in 1..Len(f.content.body_parts[k].tests) :
                            f.content.body_parts[k].tests[i].kind = "success" } }
        of_method(f, k, m) ==
            { [ case |-> ClassPart(f, k).tests[j], unit |-> last_gen.analysis.classes[k].methods[m],
                owner |-> "class" ] :
                j \in { i \in 1..Len(ClassPart(f, k).tests) :
                            /\ ClassPart(f, k).tests[i].kind = "success"
                            /\ ClassPart(f, k).tests[i].of = last_gen.analysis.classes[k].methods[m].name } }
        of_class(f, k) ==
            UNION { of_method(f, k, m) : m \in 1..Len(last_gen.analysis.classes[k].methods) }
    IN UNION { UNION { of_function(f, k) : k \in 1..Len(last_gen.analysis.functions) }
                  \cup UNION { of_class(f, k) : k \in 1..Len(last_gen.analysis.classes) } :
               f \in out_files }

\* the parameter list of a success case as rendered: self, the instance
\* fixture in a method case, then the mock parameters
self_params(owner, mock_names) ==
    IF owner = "class" THEN << "self", "instance" >> \o mock_names
    ELSE << "self" >> \o mock_names

\* the parameter that receives the k-th mock the patch decorators inject:
\* the mocks are appended, bottom decorator first, to the positional
\* arguments of the call, which are self alone
patched_parameter(signature, k) ==
    IF 1 + k <= Len(signature) THEN signature[1 + k] ELSE PyNone

\* C30: a success case has as many mock parameters as patch decorators, the
\* decorator of the k-th resolved strategy is the k-th from the bottom and
\* the mock it injects is received by the k-th mock parameter, named after
\* that strategy, and each setup statement reads only mock parameters of the
\* case and names bound by the setup statements before it
C30_MocksMatchDecorators ==
    \A sc \in SuccessCases :
        LET strats == resolve_mock_strategies(sc.unit, last_gen.analysis.module)
            n == Len(sc.case.decorators)
            signature == self_params(sc.owner, sc.case.params)
            bound(i) == { sc.case.params[k] : k \in 1..Len(sc.case.params) }
                            \cup UNION { SetupBinds(sc.case.setup[h]) : h \in 1..(i - 1) }
        IN /\ Len(sc.case.params) = n
           /\ Len(strats) = n
           /\ \A k \in 1..n :
                 /\ sc.case.decorators[n + 1 - k] = strats[k].decorator
                 /\ sc.case.params[k] = strats[k].arg_name
                 /\ patched_parameter(signature, k) = sc.case.params[k]
           /\ \A i \in 1..Len(sc.case.setup) : SetupReads(sc.case.setup[i]) \subseteq bound(i)

====
